---- MODULE Spec2Model ----
(***************************************************************************)
(* A model of the two stateful components of disclaude:                    *)
(*   - PersonalityTracker (src/personality.py): bounded traits, topic and  *)
(*     actor counters, the derived system prompt, snapshot restore;        *)
(*   - SmartScheduler (src/scheduler.py): one-shot reminder tasks that     *)
(*     fire once, call an injected delivery coroutine, and can be          *)
(*     cancelled.                                                          *)
(* Texts are sequences of one-character strings, so that lower-casing and  *)
(* substring matching are computed as the code computes them.              *)
(***************************************************************************)
EXTENDS Integers, Sequences, FiniteSets, TLC

\* ------------------------------------------------------------------------
\* Bounds of the model (not program constants)
\* ------------------------------------------------------------------------

\* record_interaction calls explored from a fresh tracker
MaxInteractions == 12

\* (user_id, content) pairs fed to two trackers at once
MaxPairs == 12

\* record_interaction calls of the convergence run
MaxConvergenceCalls == 430

\* schedule_reminder calls explored
MaxTasks == 3

\* on_message calls explored
MaxMessages == 3

\* The last clock reading explored
MaxClock == 2

\* get_system_prompt calls between two record_interaction calls
MaxPromptCalls == 2

\* ToolExecutor.create_reminder calls explored in one run
MaxToolCalls == 2

\* check_rate_limit calls explored in one run
MaxChecks == 5

\* record_interaction calls between two resets of a tracker whose actors are
\* noted
MaxCountedCalls == 10

\* record_interaction calls on the tracker a snapshot is taken of
MaxSnapshotCalls == 1

\* record_interaction calls on each tracker restored from a snapshot
MaxRestoredCalls == 1

\* Last clock reading of a run of check_rate_limit calls, in seconds
MaxRateClock == 123

\* Longest text given to split_message
MaxSplitText == 4

\* Largest max_length given to split_message
MaxSplitLength == 3

\* ------------------------------------------------------------------------
\* Program constants of src/personality.py
\* ------------------------------------------------------------------------

TraitMin == 0
TraitMax == 100
BandHigh == 60
BandLow == 40
EvolutionPeriod == 10

\* ------------------------------------------------------------------------
\* Settings of src/config.py, read from the environment. The process modelled
\* runs with RATE_LIMIT_MESSAGES=1 (the default is 5) and the defaults of
\* RATE_LIMIT_SECONDS and MAX_CONVERSATION_HISTORY.
\* ------------------------------------------------------------------------

RATE_LIMIT_MESSAGES == 1
RATE_LIMIT_SECONDS == 60
MAX_CONVERSATION_HISTORY == 10

\* personality_traits keys, in the dict's insertion order
TraitOrder == <<"friendliness", "formality", "humor", "verbosity", "helpfulness">>

TraitNames == {TraitOrder[i] : i \in 1..Len(TraitOrder)}

DefaultTraits ==
    [friendliness |-> 50, formality |-> 50, humor |-> 50,
     verbosity |-> 50, helpfulness |-> 70]

TopicNames == {"coding", "polite", "humor", "detailed", "brief"}

\* Keyword lists of record_interaction. The two emoji are single characters,
\* written here by their code points.
CodingWords ==
    << <<"c", "o", "d", "e">>,
       <<"p", "r", "o", "g", "r", "a", "m">>,
       <<"f", "u", "n", "c", "t", "i", "o", "n">>,
       <<"b", "u", "g">>,
       <<"e", "r", "r", "o", "r">> >>

PoliteWords ==
    << <<"h", "e", "l", "p">>,
       <<"p", "l", "e", "a", "s", "e">>,
       <<"t", "h", "a", "n", "k", "s">>,
       <<"t", "h", "a", "n", "k", " ", "y", "o", "u">> >>

HumorWords ==
    << <<"l", "o", "l">>,
       <<"h", "a", "h", "a">>,
       <<"f", "u", "n", "n", "y">>,
       <<"U+1F602">>,
       <<"U+1F923">> >>

DetailWords ==
    << <<"e", "x", "p", "l", "a", "i", "n">>,
       <<"d", "e", "t", "a", "i", "l">>,
       <<"e", "l", "a", "b", "o", "r", "a", "t", "e">>,
       <<"m", "o", "r", "e">> >>

BriefWords ==
    << <<"q", "u", "i", "c", "k">>,
       <<"b", "r", "i", "e", "f">>,
       <<"s", "h", "o", "r", "t">>,
       <<"t", "l", "d", "r">> >>

\* ------------------------------------------------------------------------
\* Inputs
\* ------------------------------------------------------------------------

Users == {1, 2}

\* Clock readings datetime.now() may return
Times == {0, 1}

TxtEmpty == <<>>
TxtNeutral == <<"o", "k">>
TxtHumor == <<"L", "O", "L", " ", "h", "a", "h", "a">>
TxtPoliteCoding ==
    <<"T", "h", "a", "n", "k", "s", " ", "f", "o", "r", " ",
      "t", "h", "e", " ", "B", "u", "g", " ", "f", "i", "x">>
TxtDetailBrief ==
    <<"e", "x", "p", "l", "a", "i", "n", ",", " ", "t", "l", "d", "r">>
TxtPolite == <<"t", "h", "a", "n", "k", "s">>

Texts == {TxtEmpty, TxtNeutral, TxtHumor, TxtPoliteCoding, TxtDetailBrief}

\* Texts of the pairs fed to two trackers at once
PairTexts == {TxtNeutral, TxtHumor, TxtPoliteCoding}

\* bot.user.id and bot.user.display_name, which Discord supplies at run time
BotUserId == "9"

BotName == <<"B", "o", "t">>

\* f'<@{bot.user.id}>' and f'<@!{bot.user.id}>'
Mention == <<"<", "@", BotUserId, ">">>

NickMention == <<"<", "@", "!", BotUserId, ">">>

TxtStretch == <<"<", "@", BotUserId, ">", " ", "r", "e", "m", "i", "n", "d", " ", "m", "e", " ", "i", "n", " ", "5", " ", "m", "i", "n", "u", "t", "e", "s", " ", "t", "o", " ", "s", "t", "r", "e", "t", "c", "h">>
TxtCallMom == <<"B", "o", "t", ",", " ", "r", "e", "m", "i", "n", "d", " ", "m", "e", " ", "t", "o", " ", "c", "a", "l", "l", " ", "m", "o", "m">>
TxtHelloBot == <<"<", "@", "!", BotUserId, ">", " ", "e", "x", "p", "l", "a", "i", "n", " ", "t", "h", "e", " ", "b", "u", "g">>
TxtTomorrow == <<"c", "a", "l", "l", " ", "m", "e", " ", "t", "o", "m", "o", "r", "r", "o", "w">>
TxtOnlyMention == <<"<", "@", BotUserId, ">", " ">>
TxtChatter == <<"h", "e", "l", "l", "o", " ", "t", "h", "e", "r", "e">>

\* bot.user as a message author
BotUser == 0

\* The messages on_message is called with
InboundMessages ==
    { [author |-> 1, channel_id |-> 100, content |-> TxtStretch,
       mentions_bot |-> TRUE, is_dm |-> FALSE],
      [author |-> 2, channel_id |-> 100, content |-> TxtCallMom,
       mentions_bot |-> FALSE, is_dm |-> FALSE],
      [author |-> 1, channel_id |-> 100, content |-> TxtHelloBot,
       mentions_bot |-> TRUE, is_dm |-> FALSE],
      [author |-> 2, channel_id |-> 200, content |-> TxtTomorrow,
       mentions_bot |-> FALSE, is_dm |-> TRUE],
      [author |-> 1, channel_id |-> 100, content |-> TxtOnlyMention,
       mentions_bot |-> TRUE, is_dm |-> FALSE],
      [author |-> 2, channel_id |-> 100, content |-> TxtChatter,
       mentions_bot |-> FALSE, is_dm |-> FALSE],
      [author |-> BotUser, channel_id |-> 100, content |-> TxtChatter,
       mentions_bot |-> FALSE, is_dm |-> FALSE] }

\* Dictionaries handed to from_dict besides the tracker's own to_dict(): an
\* empty one, one that holds only traits at the ends of the range, and one
\* whose traits were written by something other than the tracker
SnapshotInputs ==
    { [unused \in {} |-> 0],
      [personality_traits |->
          [friendliness |-> 100, formality |-> 0, humor |-> 100,
           verbosity |-> 0, helpfulness |-> 100]],
      [interaction_count |-> 3,
       personality_traits |->
          [friendliness |-> 150, formality |-> 50, humor |-> -20,
           verbosity |-> 50, helpfulness |-> 70]] }

\* ------------------------------------------------------------------------
\* str.lower() and the `in` substring test
\* ------------------------------------------------------------------------

UpperChars ==
    <<"A", "B", "C", "D", "E", "F", "G", "H", "I", "J", "K", "L", "M",
      "N", "O", "P", "Q", "R", "S", "T", "U", "V", "W", "X", "Y", "Z">>

LowerChars ==
    <<"a", "b", "c", "d", "e", "f", "g", "h", "i", "j", "k", "l", "m",
      "n", "o", "p", "q", "r", "s", "t", "u", "v", "w", "x", "y", "z">>

LowerChar(ch) ==
    IF \E i \in 1..Len(UpperChars) : UpperChars[i] = ch
    THEN LowerChars[CHOOSE i \in 1..Len(UpperChars) : UpperChars[i] = ch]
    ELSE ch

lower(text) == [i \in 1..Len(text) |-> LowerChar(text[i])]

Contains(text, word) ==
    \E i \in 0..(Len(text) - Len(word)) : SubSeq(text, i + 1, i + Len(word)) = word

AnyWordIn(words, text) == \E k \in 1..Len(words) : Contains(text, words[k])

Max(a, b) == IF a >= b THEN a ELSE b

Min(a, b) == IF a <= b THEN a ELSE b

\* \s
Whitespace == {" ", "\t", "\n"}

\* text[i:].startswith(word)
HasAt(text, i, word) ==
    /\ i >= 1
    /\ i + Len(word) - 1 <= Len(text)
    /\ SubSeq(text, i, i + Len(word) - 1) = word

\* str.strip()
strip(text) ==
    IF \A i \in 1..Len(text) : text[i] \in Whitespace THEN <<>>
    ELSE LET first == CHOOSE i \in 1..Len(text) :
                          /\ text[i] \notin Whitespace
                          /\ \A j \in 1..(i - 1) : text[j] \in Whitespace
             last == CHOOSE i \in 1..Len(text) :
                         /\ text[i] \notin Whitespace
                         /\ \A j \in (i + 1)..Len(text) : text[j] \in Whitespace
         IN SubSeq(text, first, last)

\* str.replace(word, '') from index i on
RECURSIVE remove_all(_, _, _)
remove_all(text, word, i) ==
    IF i > Len(text) THEN <<>>
    ELSE IF HasAt(text, i, word) THEN remove_all(text, word, i + Len(word))
    ELSE <<text[i]>> \o remove_all(text, word, i + 1)

\* \w, on lower-cased text
WordChars ==
    {LowerChars[i] : i \in 1..Len(LowerChars)} \cup
    {"0", "1", "2", "3", "4", "5", "6", "7", "8", "9", "_"}

\* \s* at i: the index of the last character of the whitespace run that
\* starts at i, i - 1 when text[i] is no whitespace
SpaceRunEnd(text, i) ==
    CHOOSE j \in (i - 1)..Len(text) :
        /\ \A m \in i..j : text[m] \in Whitespace
        /\ (j = Len(text) \/ text[j + 1] \notin Whitespace)

\* rf'\b{re.escape(bot_name)}\b[,:]?\s*' matched at index i of lower-cased
\* text: the index of the last character of the match, 0 when there is none
BotNameEnd(text, i) ==
    LET name == lower(BotName)
        e == i + Len(name) - 1
    IN IF /\ HasAt(text, i, name)
          /\ (i = 1 \/ text[i - 1] \notin WordChars)
          /\ (e = Len(text) \/ text[e + 1] \notin WordChars)
       THEN LET q == IF e < Len(text) /\ text[e + 1] \in {",", ":"} THEN e + 1 ELSE e
            IN SpaceRunEnd(text, q + 1)
       ELSE 0

\* pattern.sub('', content) of clean_bot_mention from index i on
RECURSIVE sub_bot_name(_, _, _)
sub_bot_name(content, content_lower, i) ==
    IF i > Len(content) THEN <<>>
    ELSE LET e == BotNameEnd(content_lower, i)
         IN IF e # 0 THEN sub_bot_name(content, content_lower, e + 1)
            ELSE <<content[i]>> \o sub_bot_name(content, content_lower, i + 1)

\* bot.py clean_bot_mention
clean_bot_mention(content) ==
    LET unmentioned == remove_all(remove_all(content, Mention, 1), NickMention, 1)
    IN strip(sub_bot_name(unmentioned, lower(unmentioned), 1))

\* bot.py is_bot_mentioned
is_bot_mentioned(message) ==
    \/ message.mentions_bot
    \/ message.is_dm
    \/ Contains(lower(message.content), lower(BotName))

\* ------------------------------------------------------------------------
\* PersonalityTracker
\* ------------------------------------------------------------------------

\* defaultdict(int) increment of an insertion-ordered dict, held as a sequence
\* of <<key, count>> pairs
DictIncr(d, key) ==
    IF \E i \in 1..Len(d) : d[i][1] = key
    THEN [i \in 1..Len(d) |-> IF d[i][1] = key THEN <<key, d[i][2] + 1>> ELSE d[i]]
    ELSE Append(d, <<key, 1>>)

DictKeys(d) == {d[i][1] : i \in 1..Len(d)}

DictGet(d, key) ==
    IF key \in DictKeys(d)
    THEN d[CHOOSE i \in 1..Len(d) : d[i][1] = key][2]
    ELSE 0

\* defaultdict(int) increment where the order of the keys is never observed
CountIncr(f, key) ==
    IF key \in DOMAIN f
    THEN [f EXCEPT ![key] = @ + 1]
    ELSE [k \in DOMAIN f \cup {key} |-> IF k = key THEN 1 ELSE f[k]]

EmptyCounts == [k \in {} |-> 0]

\* PersonalityTracker.__init__
NewTracker(now) ==
    [interaction_count |-> 0,
     topics |-> <<>>,
     user_interactions |-> EmptyCounts,
     personality_traits |-> DefaultTraits,
     start_time |-> now,
     last_personality_shift |-> now]

\* _adjust_trait with the lower clamp forgotten
adjust_trait_upper_only(traits, trait, amount) ==
    IF trait \in DOMAIN traits
    THEN [traits EXCEPT ![trait] = Min(TraitMax, @ + amount)]
    ELSE traits

\* PersonalityTracker._adjust_trait
adjust_trait(traits, trait, amount) ==
    IF trait \in DOMAIN traits
    THEN [traits EXCEPT ![trait] = Max(TraitMin, Min(TraitMax, @ + amount))]
    ELSE traits

\* The loop of _natural_evolution with the band's ends taken as outside it
RECURSIVE evolve_from_inclusive(_, _)
evolve_from_inclusive(traits, i) ==
    IF i > Len(TraitOrder) THEN traits
    ELSE LET trait == TraitOrder[i]
             value == traits[trait]
         IN evolve_from_inclusive(
                IF value >= BandHigh THEN adjust_trait(traits, trait, -1)
                ELSE IF value <= BandLow THEN adjust_trait(traits, trait, 1)
                ELSE traits,
                i + 1)

\* The loop of _natural_evolution over personality_traits.items(), from the
\* i-th key on
RECURSIVE evolve_from(_, _)
evolve_from(traits, i) ==
    IF i > Len(TraitOrder) THEN traits
    ELSE LET trait == TraitOrder[i]
             value == traits[trait]
         IN evolve_from(
                IF value > BandHigh THEN adjust_trait(traits, trait, -1)
                ELSE IF value < BandLow THEN adjust_trait(traits, trait, 1)
                ELSE traits,
                i + 1)

\* _natural_evolution drifting only when the clock has moved since the last
\* shift
natural_evolution_by_elapsed_time(t, now) ==
    [t EXCEPT !.personality_traits =
                  IF now > t.last_personality_shift THEN evolve_from(@, 1) ELSE @,
              !.last_personality_shift = now]

\* _natural_evolution drifting toward the middle of the range instead of
\* toward the band
natural_evolution_to_middle(t, now) ==
    [t EXCEPT !.personality_traits =
                  [trait \in DOMAIN @ |->
                      IF @[trait] > 50 THEN @[trait] - 1
                      ELSE IF @[trait] < 50 THEN @[trait] + 1
                      ELSE @[trait]],
              !.last_personality_shift = now]

\* PersonalityTracker._natural_evolution
natural_evolution(t, now) ==
    [t EXCEPT !.personality_traits = evolve_from(@, 1),
              !.last_personality_shift = now]

\* The five `any(word in content_lower for word in [...])` tests of
\* record_interaction: the topics whose keyword list has a word in the text
matched_topics(content) ==
    LET content_lower == lower(content)
    IN {topic \in TopicNames :
          \/ topic = "coding" /\ AnyWordIn(CodingWords, content_lower)
          \/ topic = "polite" /\ AnyWordIn(PoliteWords, content_lower)
          \/ topic = "humor" /\ AnyWordIn(HumorWords, content_lower)
          \/ topic = "detailed" /\ AnyWordIn(DetailWords, content_lower)
          \/ topic = "brief" /\ AnyWordIn(BriefWords, content_lower)}

\* Every text record_interaction is called with in the model
AllTexts ==
    Texts \cup PairTexts \cup {TxtPolite} \cup
    {clean_bot_mention(message.content) : message \in InboundMessages}

\* matched_topics of every text the model feeds, computed once
MatchTable == [content \in AllTexts |-> matched_topics(content)]

\* The keyword blocks as an if/elif chain: only the first keyword set the text
\* matches is counted and applied
keyword_pass_first_match_only(t, user_id, content) ==
    LET hit == MatchTable[content]
        t0 == [t EXCEPT !.interaction_count = @ + 1,
                        !.user_interactions = CountIncr(@, user_id)]
    IN IF "coding" \in hit
       THEN [t0 EXCEPT
               !.topics = DictIncr(@, "coding"),
               !.personality_traits =
                   adjust_trait(adjust_trait(@, "formality", 5), "verbosity", -3)]
       ELSE IF "polite" \in hit
       THEN [t0 EXCEPT
               !.topics = DictIncr(@, "polite"),
               !.personality_traits = adjust_trait(@, "friendliness", 3)]
       ELSE IF "humor" \in hit
       THEN [t0 EXCEPT
               !.topics = DictIncr(@, "humor"),
               !.personality_traits =
                   adjust_trait(adjust_trait(@, "humor", 5), "formality", -5)]
       ELSE IF "detailed" \in hit
       THEN [t0 EXCEPT
               !.topics = DictIncr(@, "detailed"),
               !.personality_traits =
                   adjust_trait(adjust_trait(@, "verbosity", 5), "helpfulness", 3)]
       ELSE IF "brief" \in hit
       THEN [t0 EXCEPT
               !.topics = DictIncr(@, "brief"),
               !.personality_traits = adjust_trait(@, "verbosity", -5)]
       ELSE t0

\* The keyword blocks with the brief block's adjustment outside its `if`
keyword_pass_brief_unguarded(t, user_id, content) ==
    LET hit == MatchTable[content]
        t0 == [t EXCEPT !.interaction_count = @ + 1,
                        !.user_interactions = CountIncr(@, user_id)]
        t1 == IF "coding" \in hit
              THEN [t0 EXCEPT
                      !.topics = DictIncr(@, "coding"),
                      !.personality_traits =
                          adjust_trait(adjust_trait(@, "formality", 5), "verbosity", -3)]
              ELSE t0
        t2 == IF "polite" \in hit
              THEN [t1 EXCEPT
                      !.topics = DictIncr(@, "polite"),
                      !.personality_traits = adjust_trait(@, "friendliness", 3)]
              ELSE t1
        t3 == IF "humor" \in hit
              THEN [t2 EXCEPT
                      !.topics = DictIncr(@, "humor"),
                      !.personality_traits =
                          adjust_trait(adjust_trait(@, "humor", 5), "formality", -5)]
              ELSE t2
        t4 == IF "detailed" \in hit
              THEN [t3 EXCEPT
                      !.topics = DictIncr(@, "detailed"),
                      !.personality_traits =
                          adjust_trait(adjust_trait(@, "verbosity", 5), "helpfulness", 3)]
              ELSE t3
        t5 == [(IF "brief" \in hit
                THEN [t4 EXCEPT !.topics = DictIncr(@, "brief")]
                ELSE t4)
               EXCEPT !.personality_traits = adjust_trait(@, "verbosity", -5)]
    IN t5

\* record_interaction up to the keyword blocks (before the evolution test)
keyword_pass(t, user_id, content) ==
    LET hit == MatchTable[content]
        t0 == [t EXCEPT !.interaction_count = @ + 1,
                        !.user_interactions = CountIncr(@, user_id)]
        t1 == IF "coding" \in hit
              THEN [t0 EXCEPT
                      !.topics = DictIncr(@, "coding"),
                      !.personality_traits =
                          adjust_trait(adjust_trait(@, "formality", 5), "verbosity", -3)]
              ELSE t0
        t2 == IF "polite" \in hit
              THEN [t1 EXCEPT
                      !.topics = DictIncr(@, "polite"),
                      !.personality_traits = adjust_trait(@, "friendliness", 3)]
              ELSE t1
        t3 == IF "humor" \in hit
              THEN [t2 EXCEPT
                      !.topics = DictIncr(@, "humor"),
                      !.personality_traits =
                          adjust_trait(adjust_trait(@, "humor", 5), "formality", -5)]
              ELSE t2
        t4 == IF "detailed" \in hit
              THEN [t3 EXCEPT
                      !.topics = DictIncr(@, "detailed"),
                      !.personality_traits =
                          adjust_trait(adjust_trait(@, "verbosity", 5), "helpfulness", 3)]
              ELSE t3
        t5 == IF "brief" \in hit
              THEN [t4 EXCEPT
                      !.topics = DictIncr(@, "brief"),
                      !.personality_traits = adjust_trait(@, "verbosity", -5)]
              ELSE t4
    IN t5

\* The test that guards the call of _natural_evolution
evolution_due(t) == t.interaction_count % EvolutionPeriod = 0

\* PersonalityTracker.record_interaction
record_interaction(t, user_id, content, now) ==
    LET after == keyword_pass(t, user_id, content)
    IN IF evolution_due(after) THEN natural_evolution(after, now) ELSE after

\* max(self.topics.items(), key=lambda x: x[1])[0]: the key of the first item,
\* in insertion order, whose count no other item exceeds
top_topic_of(d) ==
    LET best == CHOOSE i \in 1..Len(d) :
                    /\ \A j \in 1..Len(d) : d[j][2] <= d[i][2]
                    /\ \A j \in 1..(i - 1) : d[j][2] < d[i][2]
    IN d[best][1]

\* " ".join(parts)
RECURSIVE join(_)
join(parts) ==
    IF Len(parts) = 0 THEN ""
    ELSE IF Len(parts) = 1 THEN parts[1]
    ELSE parts[1] \o " " \o join(Tail(parts))

\* The topic clauses appended for every topic counted more than 10 times
\* instead of for the most counted one
topic_part_for_each_count(t) ==
    (IF DictGet(t.topics, "coding") > 10
     THEN <<"You're particularly knowledgeable about programming.">>
     ELSE <<>>)
    \o (IF DictGet(t.topics, "humor") > 10
        THEN <<"You've noticed this community enjoys humor.">>
        ELSE <<>>)

\* The `if self.topics:` block of get_system_prompt: what it appends
topic_part(t) ==
    IF Len(t.topics) > 0
    THEN LET top_topic == top_topic_of(t.topics)
         IN IF top_topic = "coding" /\ DictGet(t.topics, top_topic) > 10
            THEN <<"You're particularly knowledgeable about programming.">>
            ELSE IF top_topic = "humor" /\ DictGet(t.topics, top_topic) > 10
            THEN <<"You've noticed this community enjoys humor.">>
            ELSE <<>>
    ELSE <<>>

\* The prompt_parts list that get_system_prompt builds
prompt_parts(t) ==
    LET tr == t.personality_traits
        base == <<"You are DisClaude, a helpful Discord assistant powered by Claude AI.">>
        friendliness ==
            IF tr["friendliness"] > 70
            THEN <<"You are warm, enthusiastic, and use friendly emojis occasionally.">>
            ELSE IF tr["friendliness"] > 40
            THEN <<"You are friendly and approachable.">>
            ELSE <<"You are professional and direct.">>
        formality ==
            IF tr["formality"] > 70
            THEN <<"You communicate formally and professionally.">>
            ELSE IF tr["formality"] < 30
            THEN <<"You use casual language and can be playful.">>
            ELSE <<>>
        humor ==
            IF tr["humor"] > 70
            THEN <<"You enjoy witty remarks and occasional jokes.">>
            ELSE IF tr["humor"] > 40
            THEN <<"You can make light jokes when appropriate.">>
            ELSE <<>>
        verbosity ==
            IF tr["verbosity"] > 70
            THEN <<"You provide detailed, comprehensive explanations.">>
            ELSE IF tr["verbosity"] < 30
            THEN <<"You keep responses concise and to the point.">>
            ELSE <<>>
        helpfulness ==
            IF tr["helpfulness"] > 80
            THEN <<"You go above and beyond to help users, offering examples and alternatives.">>
            ELSE IF tr["helpfulness"] > 50
            THEN <<"You are helpful and thorough in your responses.">>
            ELSE <<>>
        experience ==
            IF t.interaction_count > 100
            THEN <<"You've had " \o ToString(t.interaction_count)
                   \o " conversations and have developed a mature, experienced tone.">>
            ELSE IF t.interaction_count > 20
            THEN <<"You're becoming familiar with the community.">>
            ELSE <<>>
        topic == topic_part(t)
    IN base \o friendliness \o formality \o humor \o verbosity \o helpfulness
            \o experience \o topic

\* PersonalityTracker.get_system_prompt
get_system_prompt(t) == join(prompt_parts(t))

\* datetime.isoformat and datetime.fromisoformat
isoformat(time) == <<"iso", time>>

fromisoformat(text) == text[2]

\* PersonalityTracker.to_dict
to_dict(t) ==
    [interaction_count |-> t.interaction_count,
     topics |-> t.topics,
     user_interactions |-> t.user_interactions,
     personality_traits |-> t.personality_traits,
     start_time |-> isoformat(t.start_time)]

\* data.get(key, default)
dict_get(data, key, default) == IF key \in DOMAIN data THEN data[key] ELSE default

\* PersonalityTracker.from_dict
from_dict(data, now) ==
    LET fresh == NewTracker(now)
    IN [interaction_count |-> dict_get(data, "interaction_count", 0),
        topics |-> dict_get(data, "topics", <<>>),
        user_interactions |-> dict_get(data, "user_interactions", EmptyCounts),
        personality_traits |->
            dict_get(data, "personality_traits", fresh.personality_traits),
        start_time |->
            IF "start_time" \in DOMAIN data
            THEN fromisoformat(data["start_time"])
            ELSE fresh.start_time,
        last_personality_shift |-> fresh.last_personality_shift]

\* ------------------------------------------------------------------------
\* SmartScheduler
\* ------------------------------------------------------------------------

\* f"reminder_{self.task_counter}"
TaskId(counter) == <<"reminder_", counter>>

\* The ids schedule_reminder can issue within the bound
AllTaskIds == {TaskId(counter) : counter \in 1..MaxTasks}

\* An id no schedule_reminder call ever returns
NoTask == <<"reminder_", 0>>

\* Ids handed to cancel_task: every id that can be issued, and one that cannot
CancelIds == AllTaskIds \cup {NoTask}

Channels == {100}

Whens == {5}

Messages == {"stretch"}

\* The (user_id, original_message) pairs of the schedule_reminder calls:
\* original_message None is <<>>, a string s is <<s>>
Requests == {<<1, <<>>>>, <<2, <<"remind me in 5 minutes to stretch">>>>}

\* scheduled_tasks is a dict in insertion order: a sequence of
\* <<task_id, task_info>> items. Its keys
TaskKeys(tasks) == {tasks[i][1] : i \in 1..Len(tasks)}

\* tasks.values()
TaskValues(tasks) == [i \in 1..Len(tasks) |-> tasks[i][2]]

\* del tasks[task_id]
RECURSIVE DelTask(_, _)
DelTask(tasks, task_id) ==
    IF Len(tasks) = 0 THEN <<>>
    ELSE IF Head(tasks)[1] = task_id THEN Tail(tasks)
    ELSE <<Head(tasks)>> \o DelTask(Tail(tasks), task_id)

\* The reminder_text send_reminder builds: the mention, the message and, when
\* original_message is truthy, the quoted request
reminder_text(user_id, message, original_message) ==
    [mention |-> user_id,
     body |-> message,
     asked |-> IF original_message # <<>> /\ original_message[1] # ""
               THEN original_message ELSE <<>>]

\* get_user_tasks returning every task, whoever owns it
get_user_tasks_any_owner(tasks, user_id) == TaskValues(tasks)

\* SmartScheduler.get_user_tasks: the values of scheduled_tasks, in the dict's
\* order, whose user_id is the one asked for
get_user_tasks(tasks, user_id) ==
    SelectSeq(TaskValues(tasks), LAMBDA task : task.user_id = user_id)

\* SmartScheduler.get_all_tasks
get_all_tasks(tasks) == TaskValues(tasks)

\* SmartScheduler.get_task_count
get_task_count(tasks) == Len(tasks)

\* ------------------------------------------------------------------------
\* TimeParser (src/time_parser.py). The regular expressions of
\* reminder_patterns are matched as re.search matches them: leftmost start,
\* greedy quantifiers. MatchEnd gives the index of the last character of the
\* match that starts at index i, or 0 when the pattern does not match there.
\* ------------------------------------------------------------------------

Digits == {"0", "1", "2", "3", "4", "5", "6", "7", "8", "9"}

DigitValue(ch) ==
    CASE ch = "0" -> 0 [] ch = "1" -> 1 [] ch = "2" -> 2 [] ch = "3" -> 3
      [] ch = "4" -> 4 [] ch = "5" -> 5 [] ch = "6" -> 6 [] ch = "7" -> 7
      [] ch = "8" -> 8 [] ch = "9" -> 9

IsDigitAt(text, i) == i \in 1..Len(text) /\ text[i] \in Digits

\* \d+ at i: the index of the last digit of the run that starts at i, i - 1
\* when text[i] is no digit
DigitRunEnd(text, i) ==
    CHOOSE j \in (i - 1)..Len(text) :
        /\ \A m \in i..j : text[m] \in Digits
        /\ ~IsDigitAt(text, j + 1)

\* int(match.group(1))
RECURSIVE ToInt(_)
ToInt(digits) ==
    IF Len(digits) = 0 THEN 0
    ELSE 10 * ToInt(SubSeq(digits, 1, Len(digits) - 1)) + DigitValue(digits[Len(digits)])

\* (minute|hour|day|week)
UnitWords ==
    << <<"m", "i", "n", "u", "t", "e">>, <<"h", "o", "u", "r">>,
       <<"d", "a", "y">>, <<"w", "e", "e", "k">> >>

\* The alternative of (minute|hour|day|week) that matches at i, 0 when none
UnitAt(text, i) ==
    IF \E u \in 1..Len(UnitWords) : HasAt(text, i, UnitWords[u])
    THEN CHOOSE u \in 1..Len(UnitWords) :
             /\ HasAt(text, i, UnitWords[u])
             /\ \A v \in 1..(u - 1) : ~HasAt(text, i, UnitWords[v])
    ELSE 0

\* (\d+) (minute|hour|day|week)s? at i
AmountUnitEnd(text, i) ==
    LET d == DigitRunEnd(text, i)
    IN IF d < i \/ ~HasAt(text, d + 1, <<" ">>) THEN 0
       ELSE LET u == UnitAt(text, d + 2)
            IN IF u = 0 THEN 0
               ELSE LET e == d + 1 + Len(UnitWords[u])
                    IN IF HasAt(text, e + 1, <<"s">>) THEN e + 1 ELSE e

\* (tomorrow|tonight|next week|next month)
KeywordTimes ==
    << <<"t", "o", "m", "o", "r", "r", "o", "w">>,
       <<"t", "o", "n", "i", "g", "h", "t">>,
       <<"n", "e", "x", "t", " ", "w", "e", "e", "k">>,
       <<"n", "e", "x", "t", " ", "m", "o", "n", "t", "h">> >>

KeywordAt(text, i) ==
    IF \E u \in 1..Len(KeywordTimes) : HasAt(text, i, KeywordTimes[u])
    THEN CHOOSE u \in 1..Len(KeywordTimes) :
             /\ HasAt(text, i, KeywordTimes[u])
             /\ \A v \in 1..(u - 1) : ~HasAt(text, i, KeywordTimes[v])
    ELSE 0

RemindMe == <<"r", "e", "m", "i", "n", "d", " ", "m", "e", " ">>

\* \d{1,2}:?\d{0,2}\s?(?:am|pm|AM|PM)? at i, on lower-cased text
ClockTimeEnd(text, i) ==
    IF ~IsDigitAt(text, i) THEN 0
    ELSE LET d1 == IF IsDigitAt(text, i + 1) THEN i + 1 ELSE i
             c == IF HasAt(text, d1 + 1, <<":">>) THEN d1 + 1 ELSE d1
             d2 == IF IsDigitAt(text, c + 1)
                   THEN (IF IsDigitAt(text, c + 2) THEN c + 2 ELSE c + 1)
                   ELSE c
             w == IF d2 + 1 <= Len(text) /\ text[d2 + 1] \in Whitespace
                  THEN d2 + 1 ELSE d2
         IN IF HasAt(text, w + 1, <<"a", "m">>) \/ HasAt(text, w + 1, <<"p", "m">>)
            THEN w + 2 ELSE w

PatternCount == 5

\* The index where the first capture group of pattern k starts, for the match
\* that starts at i
GroupStart(k, text, i) ==
    CASE k = 1 -> IF HasAt(text, i + Len(RemindMe), <<"i", "n", " ">>)
                  THEN i + Len(RemindMe) + 3 ELSE i + Len(RemindMe)
      [] k = 2 -> i + 3
      [] k = 3 -> i
      [] k = 4 -> i
      [] k = 5 -> i + 3

\* reminder_patterns[k - 1] matched at index i of lower-cased text
MatchEnd(k, text, i) ==
    CASE k = 1 -> IF HasAt(text, i, RemindMe)
                  THEN AmountUnitEnd(text, GroupStart(1, text, i)) ELSE 0
      [] k = 2 -> IF HasAt(text, i, <<"i", "n", " ">>)
                  THEN AmountUnitEnd(text, i + 3) ELSE 0
      [] k = 3 -> LET e == AmountUnitEnd(text, i)
                  IN IF e # 0 /\ HasAt(text, e + 1, <<" ", "f", "r", "o", "m", " ", "n", "o", "w">>)
                     THEN e + Len(<<" ", "f", "r", "o", "m", " ", "n", "o", "w">>) ELSE 0
      [] k = 4 -> LET u == KeywordAt(text, i)
                  IN IF u = 0 THEN 0 ELSE i + Len(KeywordTimes[u]) - 1
      [] k = 5 -> IF HasAt(text, i, <<"a", "t", " ">>)
                  THEN ClockTimeEnd(text, i + 3) ELSE 0

\* re.search(pattern, text): the start of the leftmost match, 0 when none
Search(k, text) ==
    IF \E i \in 1..Len(text) : MatchEnd(k, text, i) # 0
    THEN CHOOSE i \in 1..Len(text) :
             /\ MatchEnd(k, text, i) # 0
             /\ \A j \in 1..(i - 1) : MatchEnd(k, text, j) = 0
    ELSE 0

\* The pattern loop without its `break`: the last pattern that matches wins
first_pattern_without_break(message_lower) ==
    IF \E k \in 1..PatternCount : Search(k, message_lower) # 0
    THEN CHOOSE k \in 1..PatternCount :
             /\ Search(k, message_lower) # 0
             /\ \A j \in (k + 1)..PatternCount : Search(j, message_lower) = 0
    ELSE 0

\* The `for pattern in self.reminder_patterns` loop of
\* parse_time_from_message: the first pattern that matches, 0 when none does
first_pattern(message_lower) ==
    IF \E k \in 1..PatternCount : Search(k, message_lower) # 0
    THEN CHOOSE k \in 1..PatternCount :
             /\ Search(k, message_lower) # 0
             /\ \A j \in 1..(k - 1) : Search(j, message_lower) = 0
    ELSE 0

\* time_expression after the loop: <<>> when no pattern matched, else the
\* expression handed to dateparser, f"{amount} {unit}s from now" held as its
\* amount and unit
time_expression(message_lower) ==
    LET group_of[k \in 1..PatternCount, i \in 1..Len(message_lower)] ==
            LET e == MatchEnd(k, message_lower, i)
                g == GroupStart(k, message_lower, i)
            IN IF k \in {1, 2, 3}
               THEN LET d == DigitRunEnd(message_lower, g)
                    IN << [kind |-> "from now",
                           amount |-> ToInt(SubSeq(message_lower, g, d)),
                           unit |-> UnitWords[UnitAt(message_lower, d + 2)]] >>
               ELSE << [kind |-> "direct",
                        text |-> SubSeq(message_lower, g, e)] >>
        match_of[k \in 0..PatternCount] ==
            IF k = 0 THEN <<>> ELSE group_of[k, Search(k, message_lower)]
    IN match_of[first_pattern(message_lower)]

\* reminder_keywords of detect_reminder_request
ReminderKeywords ==
    << <<"r", "e", "m", "i", "n", "d", " ", "m", "e">>,
       <<"r", "e", "m", "i", "n", "d", "e", "r">>,
       <<"r", "e", "m", "i", "n", "d", " ", "u", "s">>,
       <<"a", "l", "e", "r", "t", " ", "m", "e">>,
       <<"n", "o", "t", "i", "f", "y", " ", "m", "e">>,
       <<"p", "i", "n", "g", " ", "m", "e">>,
       <<"t", "e", "l", "l", " ", "m", "e">>,
       <<"l", "e", "t", " ", "m", "e", " ", "k", "n", "o", "w">>,
       <<"d", "o", "n", "'", "t", " ", "f", "o", "r", "g", "e", "t">>,
       <<"r", "e", "m", "e", "m", "b", "e", "r", " ", "t", "o">> >>

\* time_indicators of detect_reminder_request
TimeIndicators ==
    << <<"i", "n">>, <<"a", "t">>, <<"t", "o", "m", "o", "r", "r", "o", "w">>,
       <<"t", "o", "n", "i", "g", "h", "t">>, <<"l", "a", "t", "e", "r">>,
       <<"n", "e", "x", "t", " ", "w", "e", "e", "k">>,
       <<"n", "e", "x", "t", " ", "m", "o", "n", "t", "h">>,
       <<"m", "i", "n", "u", "t", "e", "s">>, <<"h", "o", "u", "r", "s">>,
       <<"d", "a", "y", "s">>, <<"w", "e", "e", "k", "s">> >>

\* len(message.split()): the runs of non-whitespace characters
WordCount(message) ==
    Cardinality({i \in 1..Len(message) :
                    /\ message[i] \notin Whitespace
                    /\ (i = 1 \/ message[i - 1] \in Whitespace)})

\* TimeParser.detect_reminder_request
detect_reminder_request(message) ==
    LET message_lower == lower(message)
        has_reminder_keyword == AnyWordIn(ReminderKeywords, message_lower)
        has_time_indicator == AnyWordIn(TimeIndicators, message_lower)
    IN has_reminder_keyword \/ (has_time_indicator /\ WordCount(message) < 20)

\* remove_phrases of _extract_reminder_content
RemovePhrases ==
    << <<"r", "e", "m", "i", "n", "d", " ", "m", "e", " ", "t", "o", " ">>,
       <<"r", "e", "m", "i", "n", "d", " ", "m", "e", " ">>,
       <<"r", "e", "m", "i", "n", "d", "e", "r", " ", "t", "o", " ">>,
       <<"r", "e", "m", "i", "n", "d", "e", "r", " ">>,
       <<"a", "l", "e", "r", "t", " ", "m", "e", " ", "t", "o", " ">>,
       <<"a", "l", "e", "r", "t", " ", "m", "e", " ">>,
       <<"n", "o", "t", "i", "f", "y", " ", "m", "e", " ", "t", "o", " ">>,
       <<"n", "o", "t", "i", "f", "y", " ", "m", "e", " ">>,
       <<"p", "i", "n", "g", " ", "m", "e", " ", "t", "o", " ">>,
       <<"p", "i", "n", "g", " ", "m", "e", " ">>,
       <<"t", "e", "l", "l", " ", "m", "e", " ", "t", "o", " ">>,
       <<"t", "e", "l", "l", " ", "m", "e", " ">>,
       <<"l", "e", "t", " ", "m", "e", " ", "k", "n", "o", "w", " ", "t", "o", " ">>,
       <<"l", "e", "t", " ", "m", "e", " ", "k", "n", "o", "w", " ">>,
       <<"d", "o", "n", "'", "t", " ", "f", "o", "r", "g", "e", "t", " ", "t", "o", " ">>,
       <<"r", "e", "m", "e", "m", "b", "e", "r", " ", "t", "o", " ">> >>

\* text.find(word), 1-based; 0 when the word does not occur
Find(text, word) ==
    IF Contains(text, word)
    THEN CHOOSE i \in 1..Len(text) :
             /\ HasAt(text, i, word)
             /\ \A j \in 1..(i - 1) : ~HasAt(text, j, word)
    ELSE 0

\* The first loop of _extract_reminder_content: everything after the first
\* phrase of the list that occurs in the message
after_lead_in(message) ==
    LET message_lower == lower(message)
    IN IF \E p \in 1..Len(RemovePhrases) : Contains(message_lower, RemovePhrases[p])
       THEN LET p == CHOOSE q \in 1..Len(RemovePhrases) :
                         /\ Contains(message_lower, RemovePhrases[q])
                         /\ \A r \in 1..(q - 1) :
                               ~Contains(message_lower, RemovePhrases[r])
                idx == Find(message_lower, RemovePhrases[p])
            IN SubSeq(message, idx + Len(RemovePhrases[p]), Len(message))
       ELSE message

\* re.sub(pattern, '', content, flags=re.IGNORECASE) from index i on: the
\* matches are found left to right on the lower-cased text and cut out
RECURSIVE sub_from(_, _, _, _)
sub_from(k, content, content_lower, i) ==
    IF i > Len(content) THEN <<>>
    ELSE LET e == MatchEnd(k, content_lower, i)
         IN IF e # 0 THEN sub_from(k, content, content_lower, e + 1)
            ELSE <<content[i]>> \o sub_from(k, content, content_lower, i + 1)

\* The second loop of _extract_reminder_content, from pattern k on
RECURSIVE sub_patterns_from(_, _)
sub_patterns_from(k, content) ==
    IF k > PatternCount THEN content
    ELSE sub_patterns_from(k + 1, sub_from(k, content, lower(content), 1))

\* re.sub(r'\s+', ' ', text)
RECURSIVE collapse_spaces(_)
collapse_spaces(text) ==
    IF Len(text) = 0 THEN <<>>
    ELSE IF text[1] \in Whitespace
    THEN IF Len(text) >= 2 /\ text[2] \in Whitespace
         THEN collapse_spaces(Tail(text))
         ELSE <<" ">> \o collapse_spaces(Tail(text))
    ELSE <<text[1]>> \o collapse_spaces(Tail(text))

\* _extract_reminder_content falling back to the message only where nothing
\* is left
extract_reminder_content_unless_empty(message) ==
    LET content == collapse_spaces(strip(sub_patterns_from(1, after_lead_in(message))))
    IN IF Len(content) = 0 THEN message ELSE content

\* TimeParser._extract_reminder_content
extract_reminder_content(message) ==
    LET content == collapse_spaces(strip(sub_patterns_from(1, after_lead_in(message))))
    IN IF Len(content) < 3 THEN message ELSE content

\* dateparser.parse returns None, written <<>>, or a datetime t, written <<t>>
NoTime == <<>>

\* parse_time_from_message rejecting on the fixed-pattern path only times
\* before now
parse_time_from_message_accepting_now(message, parsed, now) ==
    LET message_lower == lower(message)
    IN IF time_expression(message_lower) = <<>>
       THEN IF parsed # NoTime /\ parsed[1] > now
            THEN << <<parsed[1], extract_reminder_content(message)>> >>
            ELSE <<>>
       ELSE IF parsed = NoTime \/ parsed[1] < now
            THEN <<>>
            ELSE << <<parsed[1], extract_reminder_content(message)>> >>

\* parse_time_from_message returning the message it was given as the
\* reminder message
parse_time_from_message_whole_message(message, parsed, now) ==
    LET message_lower == lower(message)
    IN IF time_expression(message_lower) = <<>>
       THEN IF parsed # NoTime /\ parsed[1] > now
            THEN << <<parsed[1], message>> >>
            ELSE <<>>
       ELSE IF parsed = NoTime \/ parsed[1] <= now
            THEN <<>>
            ELSE << <<parsed[1], message>> >>

\* TimeParser.parse_time_from_message. `parsed` is what the dateparser.parse
\* call of the path taken returns and `now` what datetime.now() returns in
\* the comparison that follows it. The result is None, written <<>>, or the
\* pair (datetime, reminder_message)
parse_time_from_message(message, parsed, now) ==
    LET message_lower == lower(message)
    IN IF time_expression(message_lower) = <<>>
       THEN IF parsed # NoTime /\ parsed[1] > now
            THEN << <<parsed[1], extract_reminder_content(message)>> >>
            ELSE <<>>
       ELSE IF parsed = NoTime \/ parsed[1] <= now
            THEN <<>>
            ELSE << <<parsed[1], extract_reminder_content(message)>> >>

\* What the dateparser.parse call made at clock reading `base` may return:
\* None, or a time before, at or after the base
ParsedTimes(base) == {NoTime} \cup {<<base + d>> : d \in {-1, 0, 1, 2}}

\* The clock readings explored
Clocks == 1..MaxClock

\* For every message the model delivers: what is_bot_mentioned,
\* clean_bot_mention and detect_reminder_request return for it, and what
\* parse_time_from_message returns for each result of dateparser.parse and
\* each clock reading, computed once; first_pattern tells which path
\* parse_time_from_message takes
HandlingTable ==
    [message \in InboundMessages |->
        LET handling_of[content \in {clean_bot_mention(message.content)}] ==
                [is_bot_mentioned |-> is_bot_mentioned(message),
                 content |-> content,
                 detect_reminder_request |-> detect_reminder_request(content),
                 first_pattern |-> first_pattern(lower(content)),
                 parse_time_from_message |->
                     [parsed \in UNION {ParsedTimes(base) : base \in Clocks} |->
                         [now \in Clocks |->
                             parse_time_from_message(content, parsed, now)]]]
        IN handling_of[clean_bot_mention(message.content)]]

\* ------------------------------------------------------------------------
\* State
\* ------------------------------------------------------------------------

VARIABLES
    tracker,          \* the PersonalityTracker instance (bot.py: personality)
    evolution_runs,   \* history: _natural_evolution executions of this tracker object
    twin,             \* a second PersonalityTracker, fed what tracker is fed
    phase,            \* where the run is: "warm", then "neutral" in the
                      \* convergence run or "reset" once the tracker was reset
    prompt_log,       \* what the GetSystemPrompt calls since the last
                      \* record_interaction returned
    started,          \* SmartScheduler.started
    task_counter,     \* SmartScheduler.task_counter
    scheduled_tasks,  \* SmartScheduler.scheduled_tasks, in insertion order
    jobs,             \* the jobs self.scheduler holds, each with its closure
    running,          \* send_reminder coroutines awaiting send_function
    invoked,          \* history: task id -> calls of send_function for it
    cancels_ok,       \* history: task id -> cancel_task calls that returned True
    completed,        \* history: task id -> how its send_function call ended
    returned_ids,     \* history: what the schedule_reminder calls returned, in call order
    last_call,        \* history: the last scheduler operation and its result
    clock,            \* what datetime.now() returns, in seconds
    rate_limits,      \* bot.py rate_limits: user id -> deque of timestamps
    conversations,    \* bot.py conversations: channel id -> deque of messages
    llm_calls,        \* the get_claude_response calls on_message is awaiting
    handled,          \* history: on_message calls so far
    handlings,        \* what the text functions of bot.py and time_parser.py
                      \* return for each message that can arrive; empty
                      \* where no message arrives
    tool_results,     \* history: what the ToolExecutor.create_reminder calls
                      \* returned, with the input of each, in call order
    splitting,        \* the split_message call in progress: its arguments
                      \* (message, max_length), its locals text and chunks and
                      \* where it is
    parsing,          \* the parse_time_from_message call in progress: its
                      \* message, what it asked dateparser and got, the
                      \* clock readings and what it returned
    checks,           \* history: the check_rate_limit calls made on their
                      \* own, each with its user, its clock reading and
                      \* what it returned
    restored,         \* a snapshot dictionary and the trackers restored
                      \* from it: the dict objects that hold traits, the
                      \* dictionary and the trackers referring to them
    counted           \* history: the actors given to record_interaction
                      \* since the tracker was made or reset, and what the
                      \* last get_personality_summary call returned

scheduler_vars ==
    <<started, task_counter, scheduled_tasks, jobs, running,
      invoked, cancels_ok, completed, returned_ids, last_call>>

\* The calls the bot makes beside on_message
call_vars ==
    <<tool_results, splitting, parsing, checks, restored, counted>>

bot_vars ==
    <<clock, rate_limits, conversations, llm_calls, handled, handlings, call_vars>>

vars == <<tracker, evolution_runs, twin, phase, prompt_log, scheduler_vars, bot_vars>>

\* scheduler.py: smart_scheduler = SmartScheduler()
InitScheduler ==
    /\ started = FALSE
    /\ task_counter = 0
    /\ scheduled_tasks = <<>>
    /\ jobs = {}
    /\ running = {}
    /\ invoked = [task_id \in AllTaskIds |-> 0]
    /\ cancels_ok = [task_id \in AllTaskIds |-> 0]
    /\ completed = [task_id \in AllTaskIds |-> "no"]
    /\ returned_ids = <<>>
    /\ last_call = [op |-> "init", task_id |-> NoTask, result |-> FALSE]

\* No actor recorded and no summary asked for yet
NothingCounted == [actors |-> {}, summary |-> <<>>]

\* No snapshot taken and no tracker restored yet
NothingRestored ==
    [pc |-> "idle", objects |-> <<>>, data |-> <<>>, saved |-> <<>>,
     trackers |-> <<>>, calls |-> <<>>]

\* No call made yet
InitCalls ==
    /\ tool_results = <<>>
    /\ splitting = [message |-> <<>>, max_length |-> 0, text |-> <<>>,
                    chunks |-> <<>>, pc |-> "idle"]
    /\ parsing = [message |-> <<>>, pc |-> "idle"]
    /\ checks = <<>>
    /\ restored = NothingRestored
    /\ counted = NothingCounted

\* bot.py: the module-level rate_limits and conversations, before any message
InitBot ==
    /\ clock = 1
    /\ rate_limits = [user_id \in {} |-> <<>>]
    /\ conversations = [channel_id \in {} |-> <<>>]
    /\ llm_calls = <<>>
    /\ handled = 0
    /\ InitCalls

\* bot.py: personality = PersonalityTracker()
InitPersonality ==
    /\ tracker = NewTracker(0)
    /\ evolution_runs = 0
    /\ twin = NewTracker(0)
    /\ phase = "warm"
    /\ prompt_log = <<>>
    /\ InitScheduler
    /\ InitBot
    /\ handlings = <<>>

\* One call personality.record_interaction(user_id, content); `now` is what
\* datetime.now() returns during the call
RecordInteraction(user_id, content, now) ==
    /\ tracker.interaction_count < MaxInteractions
    /\ tracker' = record_interaction(tracker, user_id, content, now)
    /\ evolution_runs' =
           IF evolution_due(keyword_pass(tracker, user_id, content))
           THEN evolution_runs + 1
           ELSE evolution_runs
    /\ prompt_log' = <<>>
    /\ UNCHANGED <<twin, phase, scheduler_vars, bot_vars>>

\* The tracker under record_interaction calls alone. No trait, counter or
\* prompt reads the clock, so the clock reading is fixed here; SpecDeterminism
\* frees it.
NextPersonality ==
    \E user_id \in Users, content \in Texts :
        RecordInteraction(user_id, content, 0)

SpecPersonality == InitPersonality /\ [][NextPersonality]_vars

\* Two trackers constructed at clock readings of their own
InitDeterminism ==
    /\ \E now \in Times : tracker = NewTracker(now)
    /\ \E now \in Times : twin = NewTracker(now)
    /\ evolution_runs = 0
    /\ phase = "warm"
    /\ prompt_log = <<>>
    /\ InitScheduler
    /\ InitBot
    /\ handlings = <<>>

\* The next (user_id, content) pair is fed to both trackers; each call reads
\* its own clock
FeedBoth(user_id, content, now, twin_now) ==
    /\ tracker.interaction_count < MaxPairs
    /\ tracker' = record_interaction(tracker, user_id, content, now)
    /\ twin' = record_interaction(twin, user_id, content, twin_now)
    /\ evolution_runs' =
           IF evolution_due(keyword_pass(tracker, user_id, content))
           THEN evolution_runs + 1
           ELSE evolution_runs
    /\ UNCHANGED <<phase, prompt_log, scheduler_vars, bot_vars>>

NextDeterminism ==
    \E user_id \in Users, content \in PairTexts, now \in Times, twin_now \in Times :
        FeedBoth(user_id, content, now, twin_now)

SpecDeterminism == InitDeterminism /\ [][NextDeterminism]_vars

\* personality = PersonalityTracker.from_dict(data): the tracker is replaced by
\* one restored from a dictionary
Restore(data, now) ==
    /\ tracker' = from_dict(data, now)
    /\ evolution_runs' = 0
    /\ UNCHANGED <<twin, phase, prompt_log, scheduler_vars, bot_vars>>

\* The tracker under record_interaction and snapshot restore
NextRestore ==
    \/ \E data \in SnapshotInputs \cup {to_dict(tracker)}, now \in Times :
           Restore(data, now)
    \/ \E user_id \in Users, content \in PairTexts :
           RecordInteraction(user_id, content, 0)

SpecRestore == InitPersonality /\ [][NextRestore]_vars

\* A call of record_interaction in the convergence run, which goes on for
\* MaxConvergenceCalls calls
ConvergenceCall(user_id, content) ==
    /\ tracker.interaction_count < MaxConvergenceCalls
    /\ tracker' = record_interaction(tracker, user_id, content, 0)
    /\ evolution_runs' =
           IF evolution_due(keyword_pass(tracker, user_id, content))
           THEN evolution_runs + 1
           ELSE evolution_runs
    /\ UNCHANGED <<twin, scheduler_vars, bot_vars>>

\* Polite texts raise friendliness until it is 100
WarmUp ==
    /\ phase = "warm"
    /\ tracker.personality_traits["friendliness"] < TraitMax
    /\ ConvergenceCall(1, TxtPolite)
    /\ UNCHANGED <<phase, prompt_log>>

\* From friendliness = 100 on, only texts that match nothing are fed
BeginNeutral ==
    /\ phase = "warm"
    /\ tracker.personality_traits["friendliness"] = TraitMax
    /\ phase' = "neutral"
    /\ UNCHANGED <<tracker, evolution_runs, twin, prompt_log, scheduler_vars, bot_vars>>

FeedNeutral ==
    /\ phase = "neutral"
    /\ \E content \in {TxtEmpty, TxtNeutral} : ConvergenceCall(1, content)
    /\ UNCHANGED <<phase, prompt_log>>

NextConvergence == WarmUp \/ BeginNeutral \/ FeedNeutral

\* The interactions keep coming: the run does not stop while a call is possible
SpecConvergence ==
    InitPersonality /\ [][NextConvergence]_vars /\ WF_vars(NextConvergence)

\* ------------------------------------------------------------------------
\* SmartScheduler operations. self.scheduler is an APScheduler AsyncIOScheduler:
\* add_job keeps the job until it is removed; a DateTrigger job that comes due
\* on a running scheduler is taken out of the job store as its coroutine is
\* started, so remove_job on it raises JobLookupError from then on; an
\* exception leaving the job's coroutine is logged by the executor.
\* ------------------------------------------------------------------------

personality_vars == <<tracker, evolution_runs, twin, phase, prompt_log>>

\* SmartScheduler.start
Start ==
    /\ ~started
    /\ started' = TRUE
    /\ last_call' = [op |-> "start", task_id |-> NoTask, result |-> TRUE]
    /\ UNCHANGED <<task_counter, scheduled_tasks, jobs, running,
                   invoked, cancels_ok, completed, returned_ids, personality_vars, bot_vars>>

\* SmartScheduler.stop: scheduler.shutdown() empties the job store; whether the
\* executor cancels the coroutines in flight depends on the library, so either
\* all of them end with CancelledError or all of them go on
Stop ==
    /\ started
    /\ started' = FALSE
    /\ jobs' = {}
    /\ \/ /\ running' = {}
          /\ completed' =
                [task_id \in AllTaskIds |->
                    IF \E r \in running : r.task_id = task_id
                    THEN "cancelled" ELSE completed[task_id]]
       \/ UNCHANGED <<running, completed>>
    /\ last_call' = [op |-> "stop", task_id |-> NoTask, result |-> TRUE]
    /\ UNCHANGED <<task_counter, scheduled_tasks, invoked, cancels_ok,
                   returned_ids, personality_vars, bot_vars>>

\* schedule_reminder numbering the task by the size of the collection instead
\* of by the counter
ScheduleReminderNumberedBySize(when, channel_id, user_id, message, original_message) ==
    /\ task_counter < MaxTasks
    /\ Len(scheduled_tasks) < MaxTasks
    /\ task_counter' = task_counter + 1
    /\ LET task_id == TaskId(Len(scheduled_tasks) + 1)
       IN /\ jobs' = {job \in jobs : job.id # task_id} \cup
                 {[id |-> task_id, run_date |-> when, channel_id |-> channel_id,
                   user_id |-> user_id, message |-> message,
                   original_message |-> original_message]}
          /\ scheduled_tasks' =
                 Append(DelTask(scheduled_tasks, task_id),
                        <<task_id,
                          [id |-> task_id, when |-> when, channel_id |-> channel_id,
                           user_id |-> user_id, message |-> message,
                           original_message |-> original_message, job |-> task_id]>>)
          /\ returned_ids' = Append(returned_ids, task_id)
          /\ last_call' = [op |-> "schedule_reminder", task_id |-> task_id,
                           result |-> TRUE]
    /\ UNCHANGED <<started, running, invoked, cancels_ok, completed,
                   personality_vars, bot_vars>>

\* SmartScheduler.schedule_reminder: what one call does to the scheduler
schedule_reminder(when, channel_id, user_id, message, original_message) ==
    /\ task_counter < MaxTasks
    /\ task_counter' = task_counter + 1
    /\ LET task_id == TaskId(task_counter')
       IN /\ jobs' = jobs \cup
                 {[id |-> task_id, run_date |-> when, channel_id |-> channel_id,
                   user_id |-> user_id, message |-> message,
                   original_message |-> original_message]}
          /\ scheduled_tasks' =
                 Append(scheduled_tasks,
                        <<task_id,
                          [id |-> task_id, when |-> when, channel_id |-> channel_id,
                           user_id |-> user_id, message |-> message,
                           original_message |-> original_message, job |-> task_id]>>)
          /\ returned_ids' = Append(returned_ids, task_id)
          /\ last_call' = [op |-> "schedule_reminder", task_id |-> task_id,
                           result |-> TRUE]
    /\ UNCHANGED <<started, running, invoked, cancels_ok, completed>>

\* A call of schedule_reminder on its own
ScheduleReminder(when, channel_id, user_id, message, original_message) ==
    /\ schedule_reminder(when, channel_id, user_id, message, original_message)
    /\ UNCHANGED <<personality_vars, bot_vars>>

\* The executor running one job coroutine at a time: a job that comes due
\* waits until the coroutine before it has ended
FireOneAtATime(job) ==
    /\ started
    /\ running = {}
    /\ job \in jobs
    /\ jobs' = jobs \ {job}
    /\ running' = running \cup
           {[task_id |-> job.id, channel_id |-> job.channel_id,
             text |-> reminder_text(job.user_id, job.message, job.original_message)]}
    /\ invoked' = [invoked EXCEPT ![job.id] = @ + 1]
    /\ last_call' = [op |-> "fire", task_id |-> job.id, result |-> TRUE]
    /\ UNCHANGED <<started, task_counter, scheduled_tasks, cancels_ok, completed,
                   returned_ids, personality_vars, bot_vars>>

\* The job comes due: the scheduler takes it out of the job store and starts
\* send_reminder, which runs up to `await send_function(...)`
Fire(job) ==
    /\ started
    /\ job \in jobs
    /\ jobs' = jobs \ {job}
    /\ running' = running \cup
           {[task_id |-> job.id, channel_id |-> job.channel_id,
             text |-> reminder_text(job.user_id, job.message, job.original_message)]}
    /\ invoked' = [invoked EXCEPT ![job.id] = @ + 1]
    /\ last_call' = [op |-> "fire", task_id |-> job.id, result |-> TRUE]
    /\ UNCHANGED <<started, task_counter, scheduled_tasks, cancels_ok, completed,
                   returned_ids, personality_vars, bot_vars>>

\* send_function returns: send_reminder goes on to its last two lines
DeliverReturn(r) ==
    /\ r \in running
    /\ running' = running \ {r}
    /\ scheduled_tasks' =
           IF r.task_id \in TaskKeys(scheduled_tasks)
           THEN DelTask(scheduled_tasks, r.task_id)
           ELSE scheduled_tasks
    /\ completed' = [completed EXCEPT ![r.task_id] = "returned"]
    /\ last_call' = [op |-> "deliver_return", task_id |-> r.task_id, result |-> TRUE]
    /\ UNCHANGED <<started, task_counter, jobs, invoked, cancels_ok,
                   returned_ids, personality_vars, bot_vars>>

\* send_function raises: the exception leaves send_reminder at the await
DeliverRaise(r) ==
    /\ r \in running
    /\ running' = running \ {r}
    /\ completed' = [completed EXCEPT ![r.task_id] = "raised"]
    /\ last_call' = [op |-> "deliver_raise", task_id |-> r.task_id, result |-> FALSE]
    /\ UNCHANGED <<started, task_counter, scheduled_tasks, jobs, invoked,
                   cancels_ok, returned_ids, personality_vars, bot_vars>>

\* cancel_task swallowing the JobLookupError and reporting success
CancelTaskIgnoringLookupError(task_id) ==
    /\ IF task_id \in TaskKeys(scheduled_tasks)
       THEN /\ jobs' = {job \in jobs : job.id # task_id}
            /\ scheduled_tasks' = DelTask(scheduled_tasks, task_id)
            /\ cancels_ok' = [cancels_ok EXCEPT ![task_id] = @ + 1]
            /\ last_call' = [op |-> "cancel_task", task_id |-> task_id,
                             result |-> TRUE]
       ELSE /\ last_call' = [op |-> "cancel_task", task_id |-> task_id,
                             result |-> FALSE]
            /\ UNCHANGED <<jobs, scheduled_tasks, cancels_ok>>
    /\ UNCHANGED <<started, task_counter, running, invoked, completed,
                   returned_ids, personality_vars, bot_vars>>

\* cancel_task leaving the task in the collection after removing its job
CancelTaskKeepingEntry(task_id) ==
    /\ IF \E job \in jobs : job.id = task_id
       THEN /\ jobs' = {job \in jobs : job.id # task_id}
            /\ cancels_ok' = [cancels_ok EXCEPT ![task_id] = @ + 1]
            /\ last_call' = [op |-> "cancel_task", task_id |-> task_id,
                             result |-> TRUE]
       ELSE /\ last_call' = [op |-> "cancel_task", task_id |-> task_id,
                             result |-> FALSE]
            /\ UNCHANGED <<jobs, cancels_ok>>
    /\ UNCHANGED <<started, task_counter, scheduled_tasks, running, invoked,
                   completed, returned_ids, personality_vars, bot_vars>>

\* cancel_task deleting the entry in its except branch before returning False
CancelTaskDroppingEntryOnError(task_id) ==
    /\ IF task_id \in TaskKeys(scheduled_tasks)
       THEN IF \E job \in jobs : job.id = task_id
            THEN /\ jobs' = {job \in jobs : job.id # task_id}
                 /\ scheduled_tasks' = DelTask(scheduled_tasks, task_id)
                 /\ cancels_ok' = [cancels_ok EXCEPT ![task_id] = @ + 1]
                 /\ last_call' = [op |-> "cancel_task", task_id |-> task_id,
                                  result |-> TRUE]
            ELSE /\ scheduled_tasks' = DelTask(scheduled_tasks, task_id)
                 /\ last_call' = [op |-> "cancel_task", task_id |-> task_id,
                                  result |-> FALSE]
                 /\ UNCHANGED <<jobs, cancels_ok>>
       ELSE /\ last_call' = [op |-> "cancel_task", task_id |-> task_id,
                             result |-> FALSE]
            /\ UNCHANGED <<jobs, scheduled_tasks, cancels_ok>>
    /\ UNCHANGED <<started, task_counter, running, invoked, completed,
                   returned_ids, personality_vars, bot_vars>>

\* cancel_task giving the cancelled task's number back to the counter
CancelTaskReleasingId(task_id) ==
    /\ IF task_id \in TaskKeys(scheduled_tasks)
       THEN IF \E job \in jobs : job.id = task_id
            THEN /\ jobs' = {job \in jobs : job.id # task_id}
                 /\ scheduled_tasks' = DelTask(scheduled_tasks, task_id)
                 /\ task_counter' = task_counter - 1
                 /\ cancels_ok' = [cancels_ok EXCEPT ![task_id] = @ + 1]
                 /\ last_call' = [op |-> "cancel_task", task_id |-> task_id,
                                  result |-> TRUE]
            ELSE /\ last_call' = [op |-> "cancel_task", task_id |-> task_id,
                                  result |-> FALSE]
                 /\ UNCHANGED <<jobs, scheduled_tasks, cancels_ok, task_counter>>
       ELSE /\ last_call' = [op |-> "cancel_task", task_id |-> task_id,
                             result |-> FALSE]
            /\ UNCHANGED <<jobs, scheduled_tasks, cancels_ok, task_counter>>
    /\ UNCHANGED <<started, running, invoked, completed,
                   returned_ids, personality_vars, bot_vars>>

\* SmartScheduler.cancel_task
CancelTask(task_id) ==
    /\ IF task_id \in TaskKeys(scheduled_tasks)
       THEN IF \E job \in jobs : job.id = task_id
            THEN /\ jobs' = {job \in jobs : job.id # task_id}
                 /\ scheduled_tasks' = DelTask(scheduled_tasks, task_id)
                 /\ cancels_ok' = [cancels_ok EXCEPT ![task_id] = @ + 1]
                 /\ last_call' = [op |-> "cancel_task", task_id |-> task_id,
                                  result |-> TRUE]
            ELSE /\ last_call' = [op |-> "cancel_task", task_id |-> task_id,
                                  result |-> FALSE]
                 /\ UNCHANGED <<jobs, scheduled_tasks, cancels_ok>>
       ELSE /\ last_call' = [op |-> "cancel_task", task_id |-> task_id,
                             result |-> FALSE]
            /\ UNCHANGED <<jobs, scheduled_tasks, cancels_ok>>
    /\ UNCHANGED <<started, task_counter, running, invoked, completed,
                   returned_ids, personality_vars, bot_vars>>

NextScheduler ==
    \/ Start
    \/ Stop
    \/ \E when \in Whens, channel_id \in Channels, message \in Messages,
          request \in Requests :
           ScheduleReminder(when, channel_id, request[1], message, request[2])
    \/ \E job \in jobs : Fire(job)
    \/ \E r \in running : DeliverReturn(r)
    \/ \E r \in running : DeliverRaise(r)
    \/ \E task_id \in CancelIds : CancelTask(task_id)

SpecScheduler == InitPersonality /\ [][NextScheduler]_vars

\* ------------------------------------------------------------------------
\* Message handling of src/bot.py
\* ------------------------------------------------------------------------

\* d[key] of a defaultdict whose default is an empty deque
DefaultGet(d, key) == IF key \in DOMAIN d THEN d[key] ELSE <<>>

\* d[key] = value
DictSet(d, key, value) ==
    [k \in DOMAIN d \cup {key} |-> IF k = key THEN value ELSE d[k]]

\* deque(maxlen=maxlen).append(item)
deque_append(d, item, maxlen) ==
    IF Len(d) >= maxlen THEN Append(Tail(d), item) ELSE Append(d, item)

\* The `while user_timestamps and now - user_timestamps[0] > ...` loop
RECURSIVE drop_old(_, _)
drop_old(user_timestamps, now) ==
    IF Len(user_timestamps) > 0 /\ now - user_timestamps[1] > RATE_LIMIT_SECONDS
    THEN drop_old(Tail(user_timestamps), now)
    ELSE user_timestamps

\* check_rate_limit admitting while the user's deque holds no more than the
\* limit
check_rate_limit_one_over(limits, user_id, now) ==
    LET user_timestamps == drop_old(DefaultGet(limits, user_id), now)
        ok == Len(user_timestamps) <= RATE_LIMIT_MESSAGES
    IN [ok |-> ok,
        limits |->
            DictSet(limits, user_id,
                    IF ok
                    THEN deque_append(user_timestamps, now, RATE_LIMIT_MESSAGES)
                    ELSE user_timestamps)]

\* bot.py check_rate_limit: what it returns and what it leaves in rate_limits
check_rate_limit(limits, user_id, now) ==
    LET user_timestamps == drop_old(DefaultGet(limits, user_id), now)
        ok == Len(user_timestamps) < RATE_LIMIT_MESSAGES
    IN [ok |-> ok,
        limits |->
            DictSet(limits, user_id,
                    IF ok
                    THEN deque_append(user_timestamps, now, RATE_LIMIT_MESSAGES)
                    ELSE user_timestamps)]

\* Seconds that pass between the reading of RELATIVE_BASE and the comparison
\* with datetime.now()
Elapsed == {0, 1}

\* What get_claude_response returns
Responses == {TxtNeutral}

\* on_message from `conversation.append(...)` to the await of
\* get_claude_response, which reads the system prompt before it suspends
StartLlmCall(message, content) ==
    LET conversation ==
            deque_append(DefaultGet(conversations, message.channel_id),
                         [role |-> "user", content |-> content],
                         MAX_CONVERSATION_HISTORY)
    IN /\ conversations' = DictSet(conversations, message.channel_id, conversation)
       /\ llm_calls' =
              Append(llm_calls,
                     [channel_id |-> message.channel_id,
                      messages |-> conversation,
                      system |-> get_system_prompt(tracker')])

\* `conversation = conversations[channel_id]` alone: the defaultdict makes the
\* channel's deque
TouchConversation(message) ==
    conversations' =
        DictSet(conversations, message.channel_id,
                DefaultGet(conversations, message.channel_id))

\* on_message without the `return` that ends the reminder branch
OnMessageFallingThrough(message, parsed, elapsed) ==
    LET handling == handlings[message]
        addressed == message.author # BotUser /\ handling.is_bot_mentioned
        limit == check_rate_limit(rate_limits, message.author, clock)
        content == handling.content
        admitted == addressed /\ limit.ok /\ content # <<>>
        detected == admitted /\ handling.detect_reminder_request
        result == IF detected
                  THEN handling.parse_time_from_message[parsed][clock + elapsed]
                  ELSE <<>>
        recorded == admitted
    IN /\ handled < MaxMessages
       /\ clock + elapsed <= MaxClock
       /\ handled' = handled + 1
       /\ rate_limits' = IF addressed THEN limit.limits ELSE rate_limits
       /\ clock' = IF detected THEN clock + elapsed ELSE clock
       /\ tracker' =
              IF recorded
              THEN record_interaction(tracker, message.author, content, clock)
              ELSE tracker
       /\ evolution_runs' =
              IF recorded /\ evolution_due(keyword_pass(tracker, message.author, content))
              THEN evolution_runs + 1
              ELSE evolution_runs
       /\ IF result # <<>>
          THEN /\ schedule_reminder(result[1][1], message.channel_id,
                                    message.author, result[1][2], <<content>>)
               /\ StartLlmCall(message, content)
          ELSE /\ UNCHANGED scheduler_vars
               /\ IF admitted THEN StartLlmCall(message, content)
                  ELSE IF addressed /\ limit.ok
                  THEN TouchConversation(message) /\ UNCHANGED llm_calls
                  ELSE UNCHANGED <<conversations, llm_calls>>
       /\ UNCHANGED <<twin, phase, prompt_log, handlings, call_vars>>

\* on_message calling record_interaction after the reminder branch instead of
\* before it
OnMessageRecordingLate(message, parsed, elapsed) ==
    LET handling == handlings[message]
        addressed == message.author # BotUser /\ handling.is_bot_mentioned
        limit == check_rate_limit(rate_limits, message.author, clock)
        content == handling.content
        admitted == addressed /\ limit.ok /\ content # <<>>
        detected == admitted /\ handling.detect_reminder_request
        result == IF detected
                  THEN handling.parse_time_from_message[parsed][clock + elapsed]
                  ELSE <<>>
        recorded == admitted /\ result = <<>>
    IN /\ handled < MaxMessages
       /\ clock + elapsed <= MaxClock
       /\ handled' = handled + 1
       /\ rate_limits' = IF addressed THEN limit.limits ELSE rate_limits
       /\ clock' = IF detected THEN clock + elapsed ELSE clock
       /\ tracker' =
              IF recorded
              THEN record_interaction(tracker, message.author, content, clock)
              ELSE tracker
       /\ evolution_runs' =
              IF recorded /\ evolution_due(keyword_pass(tracker, message.author, content))
              THEN evolution_runs + 1
              ELSE evolution_runs
       /\ IF result # <<>>
          THEN /\ schedule_reminder(result[1][1], message.channel_id,
                                    message.author, result[1][2], <<content>>)
               /\ TouchConversation(message)
               /\ UNCHANGED llm_calls
          ELSE /\ UNCHANGED scheduler_vars
               /\ IF admitted THEN StartLlmCall(message, content)
                  ELSE IF addressed /\ limit.ok
                  THEN TouchConversation(message) /\ UNCHANGED llm_calls
                  ELSE UNCHANGED <<conversations, llm_calls>>
       /\ UNCHANGED <<twin, phase, prompt_log, handlings, call_vars>>

\* bot.py on_message, up to the point where it returns or awaits
\* get_claude_response. `parsed` is what dateparser.parse returns in
\* parse_time_from_message and `elapsed` the seconds that pass before the
\* comparison with datetime.now() that follows
OnMessage(message, parsed, elapsed) ==
    LET handling == handlings[message]
        addressed == message.author # BotUser /\ handling.is_bot_mentioned
        limit == check_rate_limit(rate_limits, message.author, clock)
        content == handling.content
        admitted == addressed /\ limit.ok /\ content # <<>>
        detected == admitted /\ handling.detect_reminder_request
        result == IF detected
                  THEN handling.parse_time_from_message[parsed][clock + elapsed]
                  ELSE <<>>
        recorded == admitted
    IN /\ handled < MaxMessages
       /\ clock + elapsed <= MaxClock
       /\ handled' = handled + 1
       /\ rate_limits' = IF addressed THEN limit.limits ELSE rate_limits
       /\ clock' = IF detected THEN clock + elapsed ELSE clock
       /\ tracker' =
              IF recorded
              THEN record_interaction(tracker, message.author, content, clock)
              ELSE tracker
       /\ evolution_runs' =
              IF recorded /\ evolution_due(keyword_pass(tracker, message.author, content))
              THEN evolution_runs + 1
              ELSE evolution_runs
       /\ IF result # <<>>
          THEN /\ schedule_reminder(result[1][1], message.channel_id,
                                    message.author, result[1][2], <<content>>)
               /\ TouchConversation(message)
               /\ UNCHANGED llm_calls
          ELSE /\ UNCHANGED scheduler_vars
               /\ IF admitted THEN StartLlmCall(message, content)
                  ELSE IF addressed /\ limit.ok
                  THEN TouchConversation(message) /\ UNCHANGED llm_calls
                  ELSE UNCHANGED <<conversations, llm_calls>>
       /\ UNCHANGED <<twin, phase, prompt_log, handlings, call_vars>>

\* get_claude_response returns to on_message, which appends the response to
\* the conversation it holds
LlmReply(i, response_text) ==
    /\ i \in 1..Len(llm_calls)
    /\ LET call == llm_calls[i]
       IN conversations' =
              DictSet(conversations, call.channel_id,
                      deque_append(DefaultGet(conversations, call.channel_id),
                                   [role |-> "assistant", content |-> response_text],
                                   MAX_CONVERSATION_HISTORY))
    /\ llm_calls' = SubSeq(llm_calls, 1, i - 1) \o SubSeq(llm_calls, i + 1, Len(llm_calls))
    /\ UNCHANGED <<clock, rate_limits, handled, handlings, call_vars,
                   personality_vars, scheduler_vars>>

\* A second passes
Tick ==
    /\ clock < MaxClock
    /\ clock' = clock + 1
    /\ UNCHANGED <<rate_limits, conversations, llm_calls, handled, handlings, call_vars,
                   personality_vars, scheduler_vars>>

NextBot ==
    \/ \E message \in InboundMessages, elapsed \in Elapsed :
           \E parsed \in ParsedTimes(clock) : OnMessage(message, parsed, elapsed)
    \/ \E i \in 1..Len(llm_calls), response_text \in Responses :
           LlmReply(i, response_text)
    \/ Tick

\* The process at start, with the handling of every message that can arrive
\* worked out
InitOnline ==
    /\ tracker = NewTracker(0)
    /\ evolution_runs = 0
    /\ twin = NewTracker(0)
    /\ phase = "warm"
    /\ prompt_log = <<>>
    /\ InitScheduler
    /\ InitBot
    /\ handlings = HandlingTable

SpecBot == InitOnline /\ [][NextBot]_vars

\* ------------------------------------------------------------------------
\* get_system_prompt and reset_personality as calls on the live tracker
\* ------------------------------------------------------------------------

\* self.topics after the read self.topics[key]: topics is a defaultdict(int),
\* whose __getitem__ inserts a missing key with the value int() = 0
topics_after_getitem(d, key) ==
    IF key \in DictKeys(d) THEN d ELSE Append(d, <<key, 0>>)

\* get_system_prompt reading self.topics['coding'] and self.topics['humor']
\* without looking at top_topic first
topics_after_get_system_prompt_by_name(t) ==
    IF Len(t.topics) > 0
    THEN LET d == topics_after_getitem(t.topics, "coding")
         IN IF DictGet(d, "coding") > 10
            THEN d
            ELSE topics_after_getitem(d, "humor")
    ELSE t.topics

\* self.topics after get_system_prompt: the only reads that can insert a key
\* are the self.topics[top_topic] of its last block, and `and` evaluates them
\* only when top_topic is 'coding' or 'humor'
topics_after_get_system_prompt(t) ==
    IF Len(t.topics) > 0
    THEN LET top_topic == top_topic_of(t.topics)
         IN IF top_topic = "coding"
            THEN topics_after_getitem(t.topics, top_topic)
            ELSE IF top_topic = "humor"
            THEN topics_after_getitem(t.topics, top_topic)
            ELSE t.topics
    ELSE t.topics

\* One call personality.get_system_prompt(); it assigns to no attribute, so
\* the tracker after the call is the tracker with whatever its reads did to
\* the topics dictionary
GetSystemPrompt ==
    /\ Len(prompt_log) < MaxPromptCalls
    /\ prompt_log' = Append(prompt_log, get_system_prompt(tracker))
    /\ tracker' = [tracker EXCEPT !.topics = topics_after_get_system_prompt(tracker)]
    /\ UNCHANGED <<evolution_runs, twin, phase, scheduler_vars, bot_vars>>

\* The contents recorded between get_system_prompt calls: they make 'coding',
\* 'humor' or 'polite' the most counted topic
PromptTexts == PairTexts \cup {TxtPolite}

\* record_interaction calls of one user with get_system_prompt calls between
\* them
NextPrompt ==
    \/ \E content \in PromptTexts : RecordInteraction(1, content, 0)
    \/ GetSystemPrompt

SpecPrompt == InitPersonality /\ [][NextPrompt]_vars

\* reset_personality restoring the default traits and leaving the counters
reset_personality_traits_only(t, now) ==
    [t EXCEPT !.personality_traits = DefaultTraits]

\* PersonalityTracker.reset_personality: self.__init__() on the live object
reset_personality(t, now) ==
    NewTracker(now)

\* One call personality.reset_personality(), as the resetpersonality command
\* makes it
ResetPersonality(now) ==
    /\ tracker' = reset_personality(tracker, now)
    /\ evolution_runs' = 0
    /\ prompt_log' = <<>>
    /\ UNCHANGED <<scheduler_vars, bot_vars>>

\* The tracker is used, or restored from a snapshot, before any reset
UseBeforeReset ==
    /\ phase = "warm"
    /\ \/ \E user_id \in Users, content \in PairTexts :
              RecordInteraction(user_id, content, 0)
       \/ \E data \in SnapshotInputs, now \in Times : Restore(data, now)

\* The tracker is reset while a second tracker is constructed beside it
ResetBesideFresh(now) ==
    /\ ResetPersonality(now)
    /\ twin' = NewTracker(0)
    /\ phase' = "reset"

\* After a reset the same record_interaction calls go to the reset tracker and
\* to the freshly constructed one
UseAfterReset ==
    /\ phase = "reset"
    /\ \E user_id \in Users, content \in PairTexts :
           FeedBoth(user_id, content, 0, 0)

NextReset ==
    \/ UseBeforeReset
    \/ \E now \in Times : ResetBesideFresh(now)
    \/ UseAfterReset

SpecReset == InitPersonality /\ [][NextReset]_vars

\* ------------------------------------------------------------------------
\* The scheduler with one delivery that never returns
\* ------------------------------------------------------------------------

\* The task whose send_function call never returns
HungTask == TaskId(1)

\* The scheduler as the bot runs it, started in on_ready and never stopped,
\* with the send_function call of HungTask never returning or raising
NextHang ==
    \/ Start
    \/ \E when \in Whens, channel_id \in Channels, message \in Messages,
          request \in Requests :
           ScheduleReminder(when, channel_id, request[1], message, request[2])
    \/ \E job \in jobs : Fire(job)
    \/ \E r \in running : r.task_id # HungTask /\ DeliverReturn(r)
    \/ \E r \in running : r.task_id # HungTask /\ DeliverRaise(r)
    \/ \E task_id \in CancelIds : CancelTask(task_id)

\* The event loop keeps running: the scheduler gets started, a job that is due
\* is run, and a send_function call that can return does
SpecHang ==
    /\ InitPersonality
    /\ [][NextHang]_vars
    /\ WF_vars(Start)
    /\ \A task_id \in AllTaskIds :
           WF_vars(\E job \in jobs : job.id = task_id /\ Fire(job))
    /\ \A task_id \in AllTaskIds \ {HungTask} :
           WF_vars(\E r \in running : r.task_id = task_id /\ DeliverReturn(r))

\* ------------------------------------------------------------------------
\* The create_reminder tool of src/agent/tools.py
\* ------------------------------------------------------------------------

\* int(text): <<value>>, or <<>> where it raises ValueError
int(text) ==
    IF Len(text) > 0 /\ \A i \in 1..Len(text) : text[i] \in Digits
    THEN <<ToInt(text)>>
    ELSE <<>>

\* A "...Z" time string for the instant `time`
isoformat_z(time) == <<"iso", time, "Z">>

\* datetime.fromisoformat of the tool's time string, after
\* time_str.replace('Z', '+00:00'): <<instant, tzinfo>>, or <<>> where it
\* raises ValueError
tool_fromisoformat(time_str) ==
    IF Len(time_str) = 0 \/ time_str[1] # "iso" THEN <<>>
    ELSE IF Len(time_str) > 2 /\ time_str[Len(time_str)] = "Z"
    THEN <<time_str[2], "+00:00">>
    ELSE <<time_str[2], "">>

\* target_time.isoformat()
tool_isoformat(target_time) ==
    IF target_time[2] = "" THEN <<"iso", target_time[1]>>
    ELSE <<"iso", target_time[1], target_time[2]>>

\* The tool inputs the model sends: times around the clock readings with and
\* without the Z suffix, a user id that is no number, a time that is no ISO
\* string and an input without its time
ToolInputs ==
    { [user_id |-> <<"1">>, channel_id |-> <<"1", "0", "0">>,
       message |-> "stretch", time |-> isoformat(when)] : when \in {1, 3} }
    \cup
    { [user_id |-> <<"2">>, channel_id |-> <<"1", "0", "0">>,
       message |-> "stretch", time |-> isoformat_z(2)],
      [user_id |-> <<"m", "e">>, channel_id |-> <<"1", "0", "0">>,
       message |-> "stretch", time |-> isoformat(3)],
      [user_id |-> <<"1">>, channel_id |-> <<"1", "0", "0">>,
       message |-> "stretch", time |-> <<"t", "o", "m", "o", "r", "r", "o", "w">>],
      [user_id |-> <<"1">>, channel_id |-> <<"1", "0", "0">>,
       message |-> "stretch"] }

\* ToolExecutor.create_reminder: the dictionary it returns as JSON; `now` is
\* what datetime.now(target_time.tzinfo) returns
create_reminder(input_data, now) ==
    IF \/ {"user_id", "channel_id", "message", "time"} \ DOMAIN input_data # {}
       \/ int(input_data.user_id) = <<>>
       \/ int(input_data.channel_id) = <<>>
    THEN [error |-> "Invalid parameters", success |-> FALSE]
    ELSE LET user_id == int(input_data.user_id)[1]
             channel_id == int(input_data.channel_id)[1]
             time_str == input_data.time
             target_time == tool_fromisoformat(time_str)
         IN IF target_time = <<>>
            THEN [error |-> "Invalid time format", success |-> FALSE,
                  message |-> "Time must be in ISO 8601 format"]
            ELSE IF target_time[1] <= now
            THEN [error |-> "Time must be in the future", success |-> FALSE,
                  provided_time |-> time_str]
            ELSE [success |-> TRUE, scheduled |-> TRUE, user_id |-> user_id,
                  channel_id |-> channel_id, message |-> input_data.message,
                  scheduled_for |-> tool_isoformat(target_time),
                  note |-> "Reminder creation requested - bot will handle scheduling"]

\* get_claude_response runs one create_reminder tool use: tool_executor.execute
\* calls create_reminder and the result goes back to the model as a
\* tool_result; nothing else is done with it
CreateReminderTool(input_data) ==
    /\ Len(tool_results) < MaxToolCalls
    /\ tool_results' =
           Append(tool_results,
                  [input |-> input_data, result |-> create_reminder(input_data, clock)])
    /\ UNCHANGED <<clock, rate_limits, conversations, llm_calls, handled, handlings,
                   splitting, parsing, checks, restored, counted,
                   personality_vars, scheduler_vars>>

\* The started bot: the model uses the create_reminder tool, messages set
\* reminders through schedule_reminder, jobs come due and are delivered, and
\* time passes
NextTool ==
    \/ Start
    \/ \E input_data \in ToolInputs : CreateReminderTool(input_data)
    \/ \E when \in Whens, channel_id \in Channels, message \in Messages,
          request \in Requests :
           ScheduleReminder(when, channel_id, request[1], message, request[2])
    \/ \E job \in jobs : Fire(job)
    \/ \E r \in running : DeliverReturn(r)
    \/ Tick

SpecTool == InitPersonality /\ [][NextTool]_vars

\* ------------------------------------------------------------------------
\* split_message of src/bot.py
\* ------------------------------------------------------------------------

\* text.lstrip()
RECURSIVE lstrip(_)
lstrip(text) ==
    IF Len(text) > 0 /\ text[1] \in Whitespace THEN lstrip(Tail(text)) ELSE text

\* text.rfind('\n', 0, end): the index, counted from 0, of the last newline
\* among the first `end` characters, -1 without one
rfind_newline(text, end) ==
    LET hits == {i \in 0..(Min(end, Len(text)) - 1) : text[i + 1] = "\n"}
    IN IF hits = {} THEN -1 ELSE CHOOSE i \in hits : \A j \in hits : j <= i

\* split_pos falling back to one past the limit
split_pos_past_limit(text, max_length) ==
    LET split_pos == rfind_newline(text, max_length)
    IN IF split_pos = -1 THEN max_length + 1 ELSE split_pos

\* The split_pos one pass of the loop works out
split_pos(text, max_length) ==
    LET found == rfind_newline(text, max_length)
    IN IF found = -1 THEN max_length ELSE found

\* The characters of the texts split
SplitChars == {"a", " ", "\n"}

\* The texts split: every text of at most MaxSplitText characters
SplitTexts == UNION {[1..n -> SplitChars] : n \in 0..MaxSplitText}

\* The max_length arguments
SplitLengths == 1..MaxSplitLength

\* split_message is called: the arguments are bound and the first test is
\* made; a short text is returned as the only chunk
InitSplit ==
    /\ tracker = NewTracker(0)
    /\ evolution_runs = 0
    /\ twin = NewTracker(0)
    /\ phase = "warm"
    /\ prompt_log = <<>>
    /\ InitScheduler
    /\ clock = 1
    /\ rate_limits = [user_id \in {} |-> <<>>]
    /\ conversations = [channel_id \in {} |-> <<>>]
    /\ llm_calls = <<>>
    /\ handled = 0
    /\ handlings = <<>>
    /\ tool_results = <<>>
    /\ parsing = [message |-> <<>>, pc |-> "idle"]
    /\ checks = <<>>
    /\ restored = NothingRestored
    /\ counted = NothingCounted
    /\ \E message \in SplitTexts, max_length \in SplitLengths :
           splitting = [message |-> message, max_length |-> max_length,
                        text |-> message, chunks |-> <<>>, pc |-> "call"]

\* `if len(text) <= max_length: return [text]`, else `chunks = []`
SplitEnter ==
    /\ splitting.pc = "call"
    /\ splitting' =
           IF Len(splitting.text) <= splitting.max_length
           THEN [splitting EXCEPT !.chunks = <<splitting.text>>, !.pc = "done"]
           ELSE [splitting EXCEPT !.chunks = <<>>, !.pc = "loop"]
    /\ UNCHANGED <<clock, rate_limits, conversations, llm_calls, handled, handlings,
                   tool_results, parsing, checks, restored, counted,
                   personality_vars, scheduler_vars>>

\* One test of `while text:` and the pass of the loop body that follows it
SplitPass ==
    /\ splitting.pc = "loop"
    /\ LET text == splitting.text
           max_length == splitting.max_length
           pos == split_pos(text, max_length)
       IN splitting' =
              IF Len(text) = 0
              THEN [splitting EXCEPT !.pc = "done"]
              ELSE IF Len(text) <= max_length
              THEN [splitting EXCEPT !.chunks = Append(@, text), !.pc = "done"]
              ELSE [splitting EXCEPT
                        !.chunks = Append(@, SubSeq(text, 1, pos)),
                        !.text = lstrip(SubSeq(text, pos + 1, Len(text)))]
    /\ UNCHANGED <<clock, rate_limits, conversations, llm_calls, handled, handlings,
                   tool_results, parsing, checks, restored, counted,
                   personality_vars, scheduler_vars>>

NextSplit == SplitEnter \/ SplitPass

\* One call of split_message, run to its end: the interpreter goes on with
\* the call as long as it has a step to take
SpecSplit == InitSplit /\ [][NextSplit]_vars /\ WF_vars(NextSplit)

\* ------------------------------------------------------------------------
\* One call of TimeParser.parse_time_from_message with its dateparser call
\* ------------------------------------------------------------------------

TxtOven ==
    <<"r", "e", "m", "i", "n", "d", " ", "m", "e", " ", "i", "n", " ", "3",
      "0", " ", "m", "i", "n", "u", "t", "e", "s", " ", "t", "o", " ", "c",
      "h", "e", "c", "k", " ", "t", "h", "e", " ", "o", "v", "e", "n">>

TxtFriday ==
    <<"c", "a", "l", "l", " ", "m", "o", "m", " ", "o", "n", " ", "f", "r",
      "i", "d", "a", "y">>

TxtThreePm ==
    <<"r", "e", "m", "i", "n", "d", " ", "m", "e", " ", "a", "t", " ", "3",
      "p", "m", " ", "i", "n", " ", "2", " ", "h", "o", "u", "r", "s">>

TxtTomorrowAtFive ==
    <<"t", "o", "m", "o", "r", "r", "o", "w", " ", "a", "t", " ", "5", " ",
      "c", "a", "l", "l", " ", "b", "o", "b">>

TxtBare ==
    <<"R", "e", "m", "i", "n", "d", " ", "m", "e", " ", "i", "n", " ", "5",
      " ", "m", "i", "n", "u", "t", "e", "s">>

TxtTomorrowOk ==
    <<"r", "e", "m", "i", "n", "d", " ", "m", "e", " ", "t", "o", "m", "o",
      "r", "r", "o", "w", " ", "o", "k">>

TaskOven ==
    <<"c", "h", "e", "c", "k", " ", "t", "h", "e", " ", "o", "v", "e", "n">>

TaskShort ==
    <<"x">>

TaskTomorrow ==
    <<"c", "a", "l", "l", " ", "m", "o", "m", " ", "t", "o", "m", "o", "r",
      "r", "o", "w">>

TaskAgain ==
    <<"r", "e", "m", "i", "n", "d", " ", "m", "e", " ", "a", "g", "a", "i",
      "n">>

TxtTomorrowNow ==
    <<"r", "e", "m", "i", "n", "d", " ", "m", "e", " ", "t", "o", "m", "o",
      "r", "r", "o", "w", " ", "n", "o", "w">>

TaskSpaced ==
    <<"c", "a", "l", "l", " ", " ", "m", "o", "m">>

LeadIn ==
    <<"r", "e", "m", "i", "n", "d", " ", "m", "e", " ", "i", "n", " ">>

ToWord ==
    <<" ", "t", "o", " ">>

\* The requests "remind me in <amount> <unit> to <task>" the model sends
RoundTripRequests ==
    [amount : {<<"1">>, <<"3", "0">>},
     unit : {<<"m", "i", "n", "u", "t", "e", "s">>, <<"h", "o", "u", "r", "s">>,
             <<"w", "e", "e", "k">>},
     task : {TaskOven, TaskShort, TaskTomorrow, TaskAgain, TaskSpaced}]

\* The text of such a request
RoundTripText(request) ==
    LeadIn \o request.amount \o <<" ">> \o request.unit \o ToWord \o request.task

\* The messages parsed: the requests above, and messages that match no
\* pattern, two patterns, and a pattern with nothing or little beside it
ParseTexts ==
    {RoundTripText(request) : request \in RoundTripRequests} \cup
    {TxtOven, TxtFriday, TxtThreePm, TxtTomorrowAtFive, TxtBare, TxtTomorrowOk,
     TxtTomorrowNow, TxtChatter}

\* The seconds in a minute, an hour, a day and a week, in the order of
\* UnitWords
UnitSeconds == <<60, 3600, 86400, 604800>>

\* The argument of the dateparser.parse call parse_time_from_message makes,
\* given what its pattern loop left in time_expression: that expression, or
\* the message
asked_for(expression, message) ==
    IF expression = <<>> THEN [kind |-> "message", text |-> message]
    ELSE expression[1]

asked_of(message) == asked_for(time_expression(lower(message)), message)

\* dateparser.parse(asked, settings={..., 'RELATIVE_BASE': base}): what it
\* may return. "<amount> <unit>s from now" is the base plus that interval; for
\* any other text the library may find no time, or one before, at or after
\* the base
dateparser_parse(asked, base) ==
    IF asked.kind = "from now"
    THEN {<<base + asked.amount *
                UnitSeconds[CHOOSE u \in 1..Len(UnitWords) :
                                UnitWords[u] = asked.unit]>>}
    ELSE ParsedTimes(base)

\* For every message parsed: what is asked of dateparser, and what
\* parse_time_from_message returns for each clock reading, each answer of
\* dateparser and each later clock reading, computed once
ParseTable ==
    [message \in ParseTexts |->
        LET handling_of[asked \in {asked_of(message)}] ==
                [asked |-> asked,
                 parse_time_from_message |->
                     [base \in Clocks |->
                         [parsed \in dateparser_parse(asked, base) |->
                             [now \in {base + elapsed : elapsed \in Elapsed} |->
                                 parse_time_from_message(message, parsed, now)]]]]
        IN handling_of[asked_of(message)]]

\* parse_time_from_message is called with one of the messages
InitParse ==
    /\ tracker = NewTracker(0)
    /\ evolution_runs = 0
    /\ twin = NewTracker(0)
    /\ phase = "warm"
    /\ prompt_log = <<>>
    /\ InitScheduler
    /\ clock \in Clocks
    /\ rate_limits = [user_id \in {} |-> <<>>]
    /\ conversations = [channel_id \in {} |-> <<>>]
    /\ llm_calls = <<>>
    /\ handled = 0
    /\ handlings = ParseTable
    /\ tool_results = <<>>
    /\ splitting = [message |-> <<>>, max_length |-> 0, text |-> <<>>,
                    chunks |-> <<>>, pc |-> "idle"]
    /\ checks = <<>>
    /\ restored = NothingRestored
    /\ counted = NothingCounted
    /\ \E message \in ParseTexts : parsing = [message |-> message, pc |-> "call"]

\* The call runs: dateparser.parse is asked at clock reading `clock` and
\* answers `parsed`, and `elapsed` seconds pass before the comparison with
\* datetime.now()
ParseTime(elapsed) ==
    /\ parsing.pc = "call"
    /\ clock' = clock + elapsed
    /\ LET handling == handlings[parsing.message]
       IN \E parsed \in DOMAIN handling.parse_time_from_message[clock] :
              parsing' =
                  [message |-> parsing.message,
                   base |-> clock,
                   asked |-> handling.asked,
                   parsed |-> parsed,
                   now |-> clock',
                   result |-> handling.parse_time_from_message[clock][parsed][clock'],
                   pc |-> "done"]
    /\ UNCHANGED <<rate_limits, conversations, llm_calls, handled, handlings,
                   tool_results, splitting, checks, restored, counted,
                   personality_vars, scheduler_vars>>

NextParse == \E elapsed \in Elapsed : ParseTime(elapsed)

SpecParse == InitParse /\ [][NextParse]_vars

\* ------------------------------------------------------------------------
\* check_rate_limit of src/bot.py, called on its own
\* ------------------------------------------------------------------------

\* One call check_rate_limit(user_id)
CheckRateLimit(user_id) ==
    /\ Len(checks) < MaxChecks
    /\ LET call == check_rate_limit(rate_limits, user_id, clock)
       IN /\ rate_limits' = call.limits
          /\ checks' = Append(checks, [user_id |-> user_id, now |-> clock,
                                       ok |-> call.ok])
    /\ UNCHANGED <<clock, conversations, llm_calls, handled, handlings,
                   tool_results, splitting, parsing, restored, counted,
                   personality_vars, scheduler_vars>>

\* The waits between calls: RATE_LIMIT_SECONDS and one second more
Waits == {RATE_LIMIT_SECONDS, RATE_LIMIT_SECONDS + 1}

\* Time passes between two calls
Pass(seconds) ==
    /\ clock + seconds <= MaxRateClock
    /\ clock' = clock + seconds
    /\ UNCHANGED <<rate_limits, conversations, llm_calls, handled, handlings,
                   call_vars, personality_vars, scheduler_vars>>

NextRateLimit ==
    \/ \E user_id \in Users : CheckRateLimit(user_id)
    \/ \E seconds \in Waits : Pass(seconds)

SpecRateLimit == InitPersonality /\ [][NextRateLimit]_vars

\* ------------------------------------------------------------------------
\* Snapshots of src/personality.py and the dict objects they share
\* ------------------------------------------------------------------------

\* A dictionary as Python holds it: the value under 'personality_traits' is a
\* reference to a dict object, here its index in `objects`
with_traits_object(data, objects) ==
    IF "personality_traits" \in DOMAIN data
    THEN [data |-> [data EXCEPT !.personality_traits = Len(objects) + 1],
          objects |-> Append(objects, data.personality_traits)]
    ELSE [data |-> data, objects |-> objects]

\* The dictionary or tracker with the traits its reference points to
deref(holder, objects) ==
    IF "personality_traits" \in DOMAIN holder
    THEN [holder EXCEPT !.personality_traits = objects[@]]
    ELSE holder

\* PersonalityTracker.from_dict on dict objects: cls() makes a traits dict of
\* its own; topics and user_interactions are copied into new defaultdicts;
\* personality_traits is bound to the object the dictionary holds, when it
\* holds one
from_dict_objects(data, objects, now) ==
    LET allocated == Append(objects, DefaultTraits)
        own == Len(allocated)
    IN [tracker |-> [from_dict(deref(data, objects), now)
                        EXCEPT !.personality_traits =
                            dict_get(data, "personality_traits", own)],
        objects |-> allocated]

\* What record_interaction leaves in the dict objects, `after` being the
\* tracker's fields when it returns: _adjust_trait assigns into
\* self.personality_traits and never rebinds it
record_interaction_objects(t, objects, after) ==
    [tracker |-> [after EXCEPT !.personality_traits = t.personality_traits],
     objects |-> [objects EXCEPT ![t.personality_traits] =
                     after.personality_traits]]

\* The tracker a snapshot is taken of is used first
UseBeforeSnapshot(user_id, content) ==
    /\ restored.pc = "idle"
    /\ tracker.interaction_count < MaxSnapshotCalls
    /\ RecordInteraction(user_id, content, 0)

\* A snapshot dictionary comes into being: data = personality.to_dict(), or a
\* dictionary loaded from elsewhere
TakeSnapshot(data) ==
    /\ restored.pc = "idle"
    /\ LET held == with_traits_object(data, restored.objects)
       IN restored' = [restored EXCEPT !.pc = "saved",
                                       !.objects = held.objects,
                                       !.data = held.data,
                                       !.saved = data]
    /\ UNCHANGED <<clock, rate_limits, conversations, llm_calls, handled,
                   handlings, tool_results, splitting, parsing, checks,
                   counted, personality_vars, scheduler_vars>>

\* One call PersonalityTracker.from_dict(data) on the snapshot; two trackers
\* are restored from it
FromDict(now) ==
    /\ restored.pc = "saved"
    /\ Len(restored.trackers) < 2
    /\ LET made == from_dict_objects(restored.data, restored.objects, now)
       IN restored' = [restored EXCEPT !.objects = made.objects,
                                       !.trackers = Append(@, made.tracker),
                                       !.calls = Append(@, 0)]
    /\ UNCHANGED <<clock, rate_limits, conversations, llm_calls, handled,
                   handlings, tool_results, splitting, parsing, checks,
                   counted, personality_vars, scheduler_vars>>

\* One call record_interaction(user_id, content) on a restored tracker
RecordOnRestored(which, user_id, content) ==
    /\ which \in 1..Len(restored.trackers)
    /\ restored.calls[which] < MaxRestoredCalls
    /\ \E after \in {record_interaction(deref(restored.trackers[which],
                                              restored.objects),
                                        user_id, content, 0)} :
           \E call \in {record_interaction_objects(restored.trackers[which],
                                                   restored.objects, after)} :
               restored' = [restored EXCEPT !.objects = call.objects,
                                            !.trackers[which] = call.tracker,
                                            !.calls[which] = @ + 1]
    /\ UNCHANGED <<clock, rate_limits, conversations, llm_calls, handled,
                   handlings, tool_results, splitting, parsing, checks,
                   counted, personality_vars, scheduler_vars>>

NextSnapshot ==
    \/ \E user_id \in Users, content \in PairTexts :
           UseBeforeSnapshot(user_id, content)
    \/ \E data \in SnapshotInputs \cup {to_dict(tracker)} : TakeSnapshot(data)
    \/ FromDict(0)
    \/ \E which \in 1..2, user_id \in Users, content \in PairTexts :
           RecordOnRestored(which, user_id, content)

SpecSnapshot == InitPersonality /\ [][NextSnapshot]_vars

\* ------------------------------------------------------------------------
\* get_personality_summary and the counters it reports
\* ------------------------------------------------------------------------

\* sorted(items, key=lambda x: x[1], reverse=True): by falling count, items of
\* equal count in the order they had
RECURSIVE sorted_by_count(_)
sorted_by_count(items) ==
    IF Len(items) = 0 THEN <<>>
    ELSE LET first == CHOOSE i \in 1..Len(items) :
                          /\ \A j \in 1..Len(items) : items[j][2] <= items[i][2]
                          /\ \A j \in 1..(i - 1) : items[j][2] < items[i][2]
         IN <<items[first]>>
                \o sorted_by_count(SubSeq(items, 1, first - 1)
                                       \o SubSeq(items, first + 1, Len(items)))

\* get_personality_summary reporting the number of topics as unique users
get_personality_summary_counting_topics(t, now) ==
    LET by_count == sorted_by_count(t.topics)
    IN [traits |-> t.personality_traits,
        interactions |-> t.interaction_count,
        unique_users |-> Len(t.topics),
        top_topics |-> SubSeq(by_count, 1, IF Len(by_count) < 5 THEN Len(by_count) ELSE 5),
        uptime_hours |-> [seconds |-> now - t.start_time, per_hour |-> 3600],
        system_prompt |-> get_system_prompt(t)]

\* PersonalityTracker.get_personality_summary; uptime_hours is kept as the
\* seconds and the divisor of the float division
get_personality_summary(t, now) ==
    LET by_count == sorted_by_count(t.topics)
    IN [traits |-> t.personality_traits,
        interactions |-> t.interaction_count,
        unique_users |-> Cardinality(DOMAIN t.user_interactions),
        top_topics |-> SubSeq(by_count, 1, IF Len(by_count) < 5 THEN Len(by_count) ELSE 5),
        uptime_hours |-> [seconds |-> now - t.start_time, per_hour |-> 3600],
        system_prompt |-> get_system_prompt(t)]

\* One call personality.record_interaction(user_id, content), its actor noted
CountedRecord(user_id, content) ==
    /\ tracker.interaction_count < MaxCountedCalls
    /\ tracker' = record_interaction(tracker, user_id, content, 0)
    /\ evolution_runs' =
           IF evolution_due(keyword_pass(tracker, user_id, content))
           THEN evolution_runs + 1
           ELSE evolution_runs
    /\ prompt_log' = <<>>
    /\ counted' = [actors |-> counted.actors \cup {user_id}, summary |-> <<>>]
    /\ UNCHANGED <<twin, phase, clock, rate_limits, conversations, llm_calls,
                   handled, handlings, tool_results, splitting, parsing, checks,
                   restored, scheduler_vars>>

\* The resetpersonality command: personality.reset_personality()
CountedReset(now) ==
    /\ tracker' = reset_personality(tracker, now)
    /\ evolution_runs' = 0
    /\ prompt_log' = <<>>
    /\ counted' = NothingCounted
    /\ UNCHANGED <<twin, phase, clock, rate_limits, conversations, llm_calls,
                   handled, handlings, tool_results, splitting, parsing, checks,
                   restored, scheduler_vars>>

\* The personality command: summary = personality.get_personality_summary()
PersonalityCommand(now) ==
    /\ counted' = [counted EXCEPT
                      !.summary = <<get_personality_summary(tracker, now)>>]
    /\ UNCHANGED <<clock, rate_limits, conversations, llm_calls, handled,
                   handlings, tool_results, splitting, parsing, checks,
                   restored, personality_vars, scheduler_vars>>

NextCounters ==
    \/ \E user_id \in Users, content \in Texts : CountedRecord(user_id, content)
    \/ \E now \in Times : CountedReset(now)
    \/ \E now \in Times : PersonalityCommand(now)

SpecCounters == InitPersonality /\ [][NextCounters]_vars

\* ------------------------------------------------------------------------
\* Shorthands
\* ------------------------------------------------------------------------

traits == tracker.personality_traits

InRange(v) == v \in TraitMin..TraitMax

\* C1 - Trait clamping: in every state reachable from a fresh tracker by
\* record_interaction calls, each of the five traits is an integer in [0,100].
C1_TraitClamping ==
    /\ DOMAIN traits = TraitNames
    /\ \A trait \in TraitNames : traits[trait] \in Int /\ InRange(traits[trait])

\* A state the clamp at both ends has acted in: humor pushed past 100 and
\* formality pushed below 0 by the eleventh humorous text.
C1_Witness ==
    /\ tracker.interaction_count = 11
    /\ tracker.topics = << <<"humor", 11>> >>
    /\ traits["humor"] = TraitMax
    /\ traits["formality"] = TraitMin

\* What the claim says one natural evolution pass does to a trait value
C7_PassOn(value) ==
    IF value > 60 THEN value - 1
    ELSE IF value < 40 THEN value + 1
    ELSE value

\* C7 - Natural evolution pass: it runs exactly on the record_interaction calls
\* after whose increment interaction_count % 10 = 0; in one pass every trait
\* above 60 decreases by exactly 1, every trait below 40 increases by exactly 1
\* and every trait within [40,60] is unchanged, so no trait is carried from
\* above the band to below 60 or from below the band to above 40.
C7_NaturalEvolutionPass ==
    [][\A user_id \in Users, content \in Texts :
         RecordInteraction(user_id, content, 0) =>
           LET before == keyword_pass(tracker, user_id, content).personality_traits
               ran == tracker'.interaction_count % 10 = 0
           IN /\ ran =>
                   \A trait \in TraitNames :
                       /\ tracker'.personality_traits[trait] = C7_PassOn(before[trait])
                       /\ before[trait] > 60 => tracker'.personality_traits[trait] >= 60
                       /\ before[trait] < 40 => tracker'.personality_traits[trait] <= 40
              /\ ~ran => tracker'.personality_traits = before
              /\ evolution_runs' = evolution_runs + (IF ran THEN 1 ELSE 0)
      ]_vars

\* The tenth call has run the pass on a trait above the band (humor 100),
\* one below it (formality 0) and three inside it.
C7_Witness ==
    /\ tracker.interaction_count = 10
    /\ evolution_runs = 1
    /\ tracker.topics = << <<"humor", 10>> >>
    /\ traits = [friendliness |-> 50, formality |-> 1, humor |-> 99,
                 verbosity |-> 50, helpfulness |-> 69]

\* C9 as claimed - a record_interaction call whose text is empty or matches no
\* keyword set leaves all five traits and all topic counters as they were.
C9_OnlyCountersChange ==
    [][\A user_id \in Users, content \in {TxtEmpty, TxtNeutral} :
         RecordInteraction(user_id, content, 0) =>
           /\ tracker'.personality_traits = tracker.personality_traits
           /\ tracker'.topics = tracker.topics
      ]_vars

\* C9 as amended - a record_interaction call whose text is empty or matches no
\* keyword set adds 1 to interaction_count and to the actor's count and leaves
\* the topic counters as they were; the traits are as they were unless
\* interaction_count % 10 = 0 after the increment, and on such a call each
\* trait above 60 is 1 lower and each trait below 40 is 1 higher.
C9_CountersAndEvolutionOnly ==
    [][\A user_id \in Users, content \in {TxtEmpty, TxtNeutral} :
         RecordInteraction(user_id, content, 0) =>
           /\ tracker'.interaction_count = tracker.interaction_count + 1
           /\ user_id \in DOMAIN tracker'.user_interactions
           /\ tracker'.user_interactions[user_id] =
                 (IF user_id \in DOMAIN tracker.user_interactions
                  THEN tracker.user_interactions[user_id] ELSE 0) + 1
           /\ \A other \in DOMAIN tracker'.user_interactions \ {user_id} :
                 /\ other \in DOMAIN tracker.user_interactions
                 /\ tracker'.user_interactions[other] = tracker.user_interactions[other]
           /\ tracker'.topics = tracker.topics
           /\ tracker'.interaction_count % 10 # 0 =>
                 tracker'.personality_traits = tracker.personality_traits
           /\ tracker'.interaction_count % 10 = 0 =>
                 \A trait \in TraitNames :
                     tracker'.personality_traits[trait] =
                         C7_PassOn(tracker.personality_traits[trait])
      ]_vars

\* Ten calls, none of which matched anything: the counters advanced, no topic
\* was counted, and the tenth call's pass took helpfulness from 70 to 69.
C9_Witness ==
    /\ tracker.interaction_count = 10
    /\ DOMAIN tracker.user_interactions = Users
    /\ tracker.topics = <<>>
    /\ traits = [DefaultTraits EXCEPT !["helpfulness"] = 69]

\* C6 - Determinism: two fresh trackers fed the same ordered sequence of
\* (actor_id, text) pairs have identical traits and topic counts after every
\* prefix, and get_system_prompt returns the same string on both, whatever
\* their clocks read.
C6_Determinism ==
    /\ tracker.personality_traits = twin.personality_traits
    /\ tracker.topics = twin.topics
    /\ get_system_prompt(tracker) = get_system_prompt(twin)

\* Eleven pairs in, the two trackers were constructed at different clock
\* readings and ran their evolution pass at different ones, and the prompt
\* has left its initial form.
C6_Witness ==
    /\ tracker.interaction_count = 11
    /\ twin.interaction_count = 11
    /\ tracker.start_time # twin.start_time
    /\ tracker.last_personality_shift # twin.last_personality_shift
    /\ Len(tracker.topics) = 2
    /\ get_system_prompt(twin) # get_system_prompt(NewTracker(0))

friendliness == tracker.personality_traits["friendliness"]

\* C8 - Natural evolution convergence: from friendliness = 100 on, under
\* non-matching interactions only, friendliness never increases, decreases by
\* at most 1 and only on a tenth interaction, eventually reaches 60, and is
\* never below 60.
C8_Convergence ==
    /\ [][phase = "neutral" =>
            /\ friendliness' <= friendliness
            /\ friendliness' >= friendliness - 1
            /\ friendliness' # friendliness => tracker'.interaction_count % 10 = 0
         ]_vars
    /\ [](phase = "neutral" => friendliness >= 60)
    /\ (phase = "neutral") ~> (friendliness = 60)
    /\ [][phase = "neutral" /\ friendliness = 60 => friendliness' = 60]_vars

\* Friendliness came down from 100 to 60 and two further passes left it there.
C8_Witness ==
    /\ phase = "neutral"
    /\ friendliness = 60
    /\ evolution_runs = 42
    /\ tracker.interaction_count = 420

\* C10 - No externally reachable operation of PersonalityTracker, restoring
\* with from_dict included, produces a tracker with a trait outside [0,100].
C10_NoTraitOutsideRange ==
    \A trait \in DOMAIN traits : InRange(traits[trait])

live == TaskKeys(scheduled_tasks)

issued == {TaskId(counter) : counter \in 1..task_counter}

\* C2 - Delivery failure still retires the task: once the delivery callback of
\* a fired task has completed, by returning or by raising, the task is no
\* longer in scheduled_tasks.
C2_FiredTaskRetired ==
    \A task_id \in AllTaskIds :
        completed[task_id] \in {"returned", "raised"} => task_id \notin live

\* C3 - At most one terminal event per task: send_function is called at most
\* once for a task, and no task has both had send_function called for it and
\* had a cancel_task call return True, also when cancel_task is called while
\* send_function is still awaited.
C3_OneTerminalEvent ==
    \A task_id \in AllTaskIds :
        /\ invoked[task_id] <= 1
        /\ ~(invoked[task_id] >= 1 /\ cancels_ok[task_id] >= 1)

\* cancel_task was called on a task whose send_function is being awaited, and
\* returned False.
C3_Witness ==
    /\ last_call.op = "cancel_task"
    /\ last_call.result = FALSE
    /\ \E r \in running : r.task_id = last_call.task_id
    /\ invoked[last_call.task_id] = 1
    /\ last_call.task_id \in live

\* C4 - Cancellation succeeds exactly once: cancel_task right after the
\* schedule_reminder that returned the id returns True and removes the task;
\* a cancel_task on an id for which cancel_task has returned True returns
\* False; so cancel_task returns True at most once per id.
C4_CancelExactlyOnce ==
    /\ [][(/\ last_call.op = "schedule_reminder"
           /\ last_call'.op = "cancel_task"
           /\ last_call'.task_id = last_call.task_id)
          => (/\ last_call'.result = TRUE
              /\ last_call.task_id \notin TaskKeys(scheduled_tasks'))]_vars
    /\ [][(/\ last_call'.op = "cancel_task"
           /\ last_call'.task_id \in AllTaskIds
           /\ cancels_ok[last_call'.task_id] >= 1)
          => last_call'.result = FALSE]_vars
    /\ [](\A task_id \in AllTaskIds : cancels_ok[task_id] <= 1)

\* The second task was cancelled once with True, and a later cancel_task on
\* the same id has just returned False.
C4_Witness ==
    /\ task_counter >= 2
    /\ cancels_ok[TaskId(2)] = 1
    /\ invoked[TaskId(2)] = 0
    /\ last_call = [op |-> "cancel_task", task_id |-> TaskId(2), result |-> FALSE]

\* C5 - Per-task state machine: a task enters scheduled_tasks only through the
\* schedule_reminder call that issues its id, and leaves it only when its
\* send_function call has returned or a cancel_task on it returns True; an id
\* that has left never comes back, and no other operation adds or removes
\* tasks.
C5_TaskStateMachine ==
    [][\A task_id \in CancelIds :
         /\ (task_id \notin live /\ task_id \in TaskKeys(scheduled_tasks')) =>
               /\ task_id \notin issued
               /\ last_call' = [op |-> "schedule_reminder", task_id |-> task_id,
                                result |-> TRUE]
         /\ (task_id \in live /\ task_id \notin TaskKeys(scheduled_tasks')) =>
               \/ /\ last_call' = [op |-> "deliver_return", task_id |-> task_id,
                                   result |-> TRUE]
                  /\ invoked[task_id] = 1
               \/ /\ last_call' = [op |-> "cancel_task", task_id |-> task_id,
                                   result |-> TRUE]
                  /\ invoked[task_id] = 0
         /\ (task_id \in issued /\ task_id \notin live) =>
               task_id \notin TaskKeys(scheduled_tasks')
      ]_vars

\* Three tasks were scheduled: the first was delivered and left, the second
\* was cancelled and left, the third is still pending.
C5_Witness ==
    /\ task_counter = 3
    /\ completed[TaskId(1)] = "returned"
    /\ cancels_ok[TaskId(2)] = 1
    /\ live = {TaskId(3)}
    /\ \E job \in jobs : job.id = TaskId(3)


\* A task is pending while it is in scheduled_tasks and its job is in the
\* scheduler's job store
pending(task_id) ==
    /\ task_id \in live
    /\ \E job \in jobs : job.id = task_id

\* C11 - cancel_task on an id that is not a pending task (never issued,
\* already cancelled, or already fired) returns False, never raises, and
\* leaves scheduled_tasks, the job store and so every other task's pending
\* status unchanged; an id that was never issued, was cancelled or has fired
\* is not pending.
C11_CancelOfNonPending ==
    /\ [](\A task_id \in CancelIds :
             (\/ task_id \notin issued
              \/ (task_id \in AllTaskIds /\ cancels_ok[task_id] >= 1)
              \/ (task_id \in AllTaskIds /\ invoked[task_id] >= 1))
             => ~pending(task_id))
    /\ [][(last_call'.op = "cancel_task" /\ ~pending(last_call'.task_id))
          => (/\ last_call'.result = FALSE
              /\ scheduled_tasks' = scheduled_tasks
              /\ jobs' = jobs
              /\ running' = running
              /\ \A task_id \in CancelIds : pending(task_id)' = pending(task_id))
         ]_vars

\* The first task fired and its delivery returned, the second was cancelled,
\* the third is pending; cancel_task on the first has just returned False and
\* the third is still pending.
C11_Witness ==
    /\ task_counter = 3
    /\ completed[TaskId(1)] = "returned"
    /\ cancels_ok[TaskId(2)] = 1
    /\ last_call = [op |-> "cancel_task", task_id |-> TaskId(1), result |-> FALSE]
    /\ pending(TaskId(3))
    /\ live = {TaskId(3)}


Range(seq) == {seq[i] : i \in 1..Len(seq)}

\* The ids of a list of task records, in the list's order
IdsOf(tasks) == [i \in 1..Len(tasks) |-> tasks[i].id]

\* C12 - get_user_tasks(owner) returns exactly the tasks now in
\* scheduled_tasks whose owner is that owner, each once, in the order in which
\* they were scheduled; a task scheduled for owner A never appears in the
\* result for another owner B, after any sequence of schedule, cancel and fire
\* events: a schedule_reminder call for A appends the new task to A's result
\* and leaves B's as it was, and every other step leaves each result as it was
\* or takes one task out of it.
C12_OwnerListing ==
    /\ [](\A owner \in Users :
             LET result == get_user_tasks(scheduled_tasks, owner)
             IN /\ \A i \in 1..Len(result) :
                      /\ result[i].user_id = owner
                      /\ \E k \in 1..Len(scheduled_tasks) : scheduled_tasks[k][2] = result[i]
                /\ \A k \in 1..Len(scheduled_tasks) :
                      scheduled_tasks[k][2].user_id = owner =>
                          \E i \in 1..Len(result) : result[i] = scheduled_tasks[k][2]
                /\ \A i, j \in 1..Len(result) :
                      i < j => result[i].id[2] < result[j].id[2]
                /\ \A other \in Users \ {owner} :
                      \A i \in 1..Len(result) :
                          result[i].id \notin
                              {task.id : task \in
                                  Range(get_user_tasks(scheduled_tasks, other))})
    /\ [][\A when \in Whens, channel_id \in Channels, message \in Messages,
             request \in Requests :
             ScheduleReminder(when, channel_id, request[1], message, request[2]) =>
                 /\ IdsOf(get_user_tasks(scheduled_tasks', request[1])) =
                        Append(IdsOf(get_user_tasks(scheduled_tasks, request[1])),
                               last_call'.task_id)
                 /\ \A other \in Users \ {request[1]} :
                        get_user_tasks(scheduled_tasks', other) =
                            get_user_tasks(scheduled_tasks, other)
         ]_vars
    /\ [][last_call'.op # "schedule_reminder" =>
             \A owner \in Users :
                 LET before == get_user_tasks(scheduled_tasks, owner)
                     after == get_user_tasks(scheduled_tasks', owner)
                 IN \/ after = before
                    \/ \E i \in 1..Len(before) :
                           after = SubSeq(before, 1, i - 1) \o
                                   SubSeq(before, i + 1, Len(before))
         ]_vars

\* Three tasks were scheduled, for owners 1, 2 and 1; the second was
\* cancelled and the first has fired and is awaiting its delivery: owner 1 is
\* listed the first and the third task, in that order, and owner 2 nothing.
C12_Witness ==
    /\ IdsOf(get_user_tasks(scheduled_tasks, 1)) = <<TaskId(1), TaskId(3)>>
    /\ get_user_tasks(scheduled_tasks, 2) = <<>>
    /\ cancels_ok[TaskId(2)] = 1
    /\ invoked[TaskId(1)] = 1
    /\ get_task_count(scheduled_tasks) = 2
    /\ get_all_tasks(scheduled_tasks) = get_user_tasks(scheduled_tasks, 1)


\* C13 - Task identifiers are unique and sequential: the k-th call of
\* schedule_reminder returns the id built from counter value k, the ids are
\* strictly increasing in creation order, an id is never issued again after
\* its task was cancelled or delivered, and the id stored in a task record
\* equals the key under which scheduled_tasks holds it.
C13_SequentialIds ==
    /\ [](/\ Len(returned_ids) = task_counter
          /\ \A k \in 1..Len(returned_ids) : returned_ids[k] = TaskId(k)
          /\ \A i, j \in 1..Len(returned_ids) :
                i < j => returned_ids[i][2] < returned_ids[j][2]
          /\ \A i \in 1..Len(scheduled_tasks) :
                /\ scheduled_tasks[i][2].id = scheduled_tasks[i][1]
                /\ scheduled_tasks[i][1] \in Range(returned_ids)
          /\ \A i, j \in 1..Len(scheduled_tasks) :
                i # j => scheduled_tasks[i][1] # scheduled_tasks[j][1])
    /\ [][last_call'.op = "schedule_reminder" =>
             /\ last_call'.task_id \notin Range(returned_ids)
             /\ last_call'.task_id \notin live
             /\ returned_ids' = Append(returned_ids, last_call'.task_id)
         ]_vars

\* The first task was cancelled, the second delivered, and the third call
\* returned the third id, under which its record is held.
C13_Witness ==
    /\ returned_ids = <<TaskId(1), TaskId(2), TaskId(3)>>
    /\ cancels_ok[TaskId(1)] = 1
    /\ completed[TaskId(2)] = "returned"
    /\ last_call = [op |-> "schedule_reminder", task_id |-> TaskId(3), result |-> TRUE]
    /\ Len(scheduled_tasks) = 1
    /\ scheduled_tasks[1][1] = TaskId(3)
    /\ scheduled_tasks[1][2].id = TaskId(3)


\* The message passed the checks that precede record_interaction: it is not
\* the bot's own, it addresses the bot, its author is within the rate limit
\* and something is left of it after the mention is stripped
Admitted(message) ==
    /\ message.author # BotUser
    /\ HandlingTable[message].is_bot_mentioned
    /\ check_rate_limit(rate_limits, message.author, clock).ok
    /\ HandlingTable[message].content # <<>>

\* What the message adds to the conversation on the LLM path
UserTurn(message) == [role |-> "user", content |-> HandlingTable[message].content]

\* C14 - Inbound message routing: when a message is classified as a reminder
\* request and time extraction succeeds, exactly one reminder task is
\* scheduled for the author and channel and the message is neither appended
\* to the conversation nor sent to the LLM; when it is classified as a
\* reminder request but extraction returns nothing, no task is scheduled and
\* the message goes to the LLM path.
C14_MessageRouting ==
    [][\A message \in InboundMessages, elapsed \in Elapsed :
         \A parsed \in ParsedTimes(clock) :
           (/\ handled' = handled + 1
            /\ Admitted(message)
            /\ HandlingTable[message].detect_reminder_request
            /\ OnMessage(message, parsed, elapsed)) =>
             LET extracted ==
                     HandlingTable[message].parse_time_from_message[parsed][clock + elapsed]
                 before == DefaultGet(conversations, message.channel_id)
                 after == DefaultGet(conversations', message.channel_id)
             IN IF extracted # <<>>
                THEN /\ Len(scheduled_tasks') = Len(scheduled_tasks) + 1
                     /\ SubSeq(scheduled_tasks', 1, Len(scheduled_tasks)) = scheduled_tasks
                     /\ LET task == scheduled_tasks'[Len(scheduled_tasks')][2]
                        IN /\ task.user_id = message.author
                           /\ task.channel_id = message.channel_id
                           /\ task.when = extracted[1][1]
                           /\ Cardinality(jobs') = Cardinality(jobs) + 1
                           /\ \E job \in jobs' \ jobs :
                                 /\ job.id = task.id
                                 /\ job.user_id = message.author
                                 /\ job.channel_id = message.channel_id
                     /\ after = before
                     /\ llm_calls' = llm_calls
                ELSE /\ scheduled_tasks' = scheduled_tasks
                     /\ jobs' = jobs
                     /\ task_counter' = task_counter
                     /\ after = Append(before, UserTurn(message))
                     /\ Len(llm_calls') = Len(llm_calls) + 1
                     /\ llm_calls'[Len(llm_calls')].channel_id = message.channel_id
                     /\ llm_calls'[Len(llm_calls')].messages = after
      ]_vars

\* Two messages were handled, both classified as reminder requests: the one
\* whose time was extracted became the only task and is in no conversation,
\* the one without a time is the only conversation entry and went to the LLM.
C14_Witness ==
    /\ handled = 2
    /\ tracker.interaction_count = 2
    /\ Len(scheduled_tasks) = 1
    /\ scheduled_tasks[1][2].user_id = 1
    /\ scheduled_tasks[1][2].channel_id = 100
    /\ scheduled_tasks[1][2].message = <<"t", "o", " ", "s", "t", "r", "e", "t", "c", "h">>
    /\ DefaultGet(conversations, 100) = << [role |-> "user", content |-> <<"r", "e", "m", "i", "n", "d", " ", "m", "e", " ", "t", "o", " ", "c", "a", "l", "l", " ", "m", "o", "m">>] >>
    /\ Len(llm_calls) = 1
    /\ llm_calls[1].messages = DefaultGet(conversations, 100)

\* The message addresses the bot: it comes from a user and is_bot_mentioned
\* holds of it
Addressed(message) ==
    /\ message.author # BotUser
    /\ HandlingTable[message].is_bot_mentioned

\* How often record_interaction has counted the user
InteractionsOf(t, user_id) ==
    IF user_id \in DOMAIN t.user_interactions THEN t.user_interactions[user_id] ELSE 0

\* C15 as stated - Every inbound user message addressed to the bot is offered
\* to record_interaction exactly once, whether it ends as a scheduled reminder
\* or goes to the LLM path.
C15_EveryAddressedMessageRecorded ==
    [][\A message \in InboundMessages, elapsed \in Elapsed :
         \A parsed \in ParsedTimes(clock) :
           (/\ handled' = handled + 1
            /\ Addressed(message)
            /\ OnMessage(message, parsed, elapsed)) =>
               /\ tracker'.interaction_count = tracker.interaction_count + 1
               /\ InteractionsOf(tracker', message.author) =
                      InteractionsOf(tracker, message.author) + 1
      ]_vars

\* C15 - Every inbound user message addressed to the bot that passes the rate
\* limit and is not empty after mention-stripping is offered to
\* record_interaction exactly once, whether it ends as a scheduled reminder or
\* goes to the LLM path; a message that is the bot's own, does not address the
\* bot, is rate-limited or is empty after stripping is not offered to it.
C15_AdmittedMessageRecordedOnce ==
    [][\A message \in InboundMessages, elapsed \in Elapsed :
         \A parsed \in ParsedTimes(clock) :
           (/\ handled' = handled + 1
            /\ OnMessage(message, parsed, elapsed)) =>
               IF Admitted(message)
               THEN /\ tracker' = record_interaction(tracker, message.author,
                                                     HandlingTable[message].content,
                                                     clock)
                    /\ tracker'.interaction_count = tracker.interaction_count + 1
                    /\ InteractionsOf(tracker', message.author) =
                           InteractionsOf(tracker, message.author) + 1
                    /\ \/ /\ Len(scheduled_tasks') = Len(scheduled_tasks) + 1
                          /\ llm_calls' = llm_calls
                       \/ /\ scheduled_tasks' = scheduled_tasks
                          /\ Len(llm_calls') = Len(llm_calls) + 1
               ELSE /\ tracker' = tracker
                    /\ scheduled_tasks' = scheduled_tasks
                    /\ llm_calls' = llm_calls
      ]_vars

\* Three messages were handled and two of them recorded, once each: one became
\* a reminder, one went to the LLM, and the third, from a user already at the
\* rate limit or not addressing the bot, left the tracker alone.
C15_Witness ==
    /\ handled = 3
    /\ tracker.interaction_count = 2
    /\ InteractionsOf(tracker, 1) = 1
    /\ InteractionsOf(tracker, 2) = 1
    /\ Len(scheduled_tasks) = 1
    /\ Len(llm_calls) = 1
    /\ DefaultGet(rate_limits, 1) # <<>>
    /\ DefaultGet(rate_limits, 2) # <<>>

\* The inbound message with the given text
MessageWith(content) == CHOOSE message \in InboundMessages : message.content = content

\* The records of the tasks the step added to scheduled_tasks
NewTasks ==
    {scheduled_tasks'[i][2] : i \in (Len(scheduled_tasks) + 1)..Len(scheduled_tasks')}

\* C16 - Future-only acceptance: parse_time_from_message returns no result
\* whenever the resolved time is at or before the current time, on the
\* fixed-pattern path and on the fallback path alike, so every task scheduled
\* from an inbound message has a fire time strictly later than the time at
\* which it was accepted.
C16_FutureOnlyAcceptance ==
    [][\A message \in InboundMessages, elapsed \in Elapsed :
         \A parsed \in ParsedTimes(clock) :
           (/\ handled' = handled + 1
            /\ Admitted(message)
            /\ HandlingTable[message].detect_reminder_request
            /\ OnMessage(message, parsed, elapsed)) =>
               LET now == clock + elapsed
                   result == HandlingTable[message].parse_time_from_message[parsed][now]
               IN /\ (parsed # NoTime /\ parsed[1] <= now) =>
                         /\ result = <<>>
                         /\ scheduled_tasks' = scheduled_tasks
                         /\ jobs' = jobs
                  /\ result # <<>> => result[1][1] > now
                  /\ \A task \in NewTasks :
                         /\ task.when > now
                         /\ task.when > clock'
                         /\ \E job \in jobs' \ jobs : job.id = task.id /\ job.run_date = task.when
      ]_vars

\* Two reminders were accepted, one whose time came from a fixed pattern
\* ("in 5 minutes") and one whose time dateparser found in the whole message,
\* and both fire after the present time.
C16_Witness ==
    /\ Len(scheduled_tasks) = 2
    /\ \E i, j \in 1..2 :
          /\ scheduled_tasks[i][2].original_message
                 = <<HandlingTable[MessageWith(TxtStretch)].content>>
          /\ HandlingTable[MessageWith(TxtStretch)].first_pattern # 0
          /\ scheduled_tasks[j][2].original_message
                 = <<HandlingTable[MessageWith(TxtCallMom)].content>>
          /\ HandlingTable[MessageWith(TxtCallMom)].first_pattern = 0
          /\ scheduled_tasks[i][2].when > clock
          /\ scheduled_tasks[j][2].when > clock

\* C17 - derive_system_prompt is pure: calling get_system_prompt in any
\* reachable state leaves traits, topic counters (including the set of topic
\* keys), actor counters and interaction_count unchanged, and two consecutive
\* calls with no record_interaction in between return the same string.
C17_PromptIsPure ==
    [][Len(prompt_log') = Len(prompt_log) + 1 =>
         /\ tracker'.personality_traits = tracker.personality_traits
         /\ tracker'.topics = tracker.topics
         /\ DictKeys(tracker'.topics) = DictKeys(tracker.topics)
         /\ tracker'.user_interactions = tracker.user_interactions
         /\ tracker'.interaction_count = tracker.interaction_count
         /\ tracker' = tracker
         /\ prompt_log # <<>> =>
                prompt_log'[Len(prompt_log')] = prompt_log[Len(prompt_log)]
      ]_vars

\* get_system_prompt was called twice in a row on a tracker whose most counted
\* topic is 'humor', so that the call read self.topics[top_topic], and both
\* calls returned the same prompt.
C17_Witness ==
    /\ Len(prompt_log) = 2
    /\ prompt_log[1] = prompt_log[2]
    /\ tracker.interaction_count >= 2
    /\ Len(tracker.topics) >= 2
    /\ top_topic_of(tracker.topics) = "humor"

\* C18 - reset_personality, called in any reachable state, leaves the tracker
\* in the construction-time default state: traits friendliness=50,
\* formality=50, humor=50, verbosity=50, helpfulness=70, interaction_count 0,
\* no topic counts and no actor counts; every later sequence of
\* record_interaction calls then produces the same traits and counters as on
\* a freshly constructed tracker.
C18_ResetToDefaults ==
    /\ [][(\E now \in Times : ResetBesideFresh(now)) =>
            /\ tracker'.personality_traits =
                   [friendliness |-> 50, formality |-> 50, humor |-> 50,
                    verbosity |-> 50, helpfulness |-> 70]
            /\ tracker'.interaction_count = 0
            /\ tracker'.topics = <<>>
            /\ DOMAIN tracker'.user_interactions = {}
       ]_vars
    /\ [](phase = "reset" =>
            /\ tracker.personality_traits = twin.personality_traits
            /\ tracker.interaction_count = twin.interaction_count
            /\ tracker.topics = twin.topics
            /\ tracker.user_interactions = twin.user_interactions)

\* A tracker that had left its defaults was reset and then used: eleven
\* interactions after the reset it has had an evolution pass and counts what a
\* fresh tracker counts, and its start time is that of the reset.
C18_Witness ==
    /\ phase = "reset"
    /\ tracker.interaction_count = 11
    /\ tracker.start_time = 1
    /\ twin.start_time = 0
    /\ evolution_runs = 1
    /\ tracker.personality_traits # DefaultTraits
    /\ Len(tracker.topics) >= 2
    /\ tracker.user_interactions = twin.user_interactions

\* The send_function call of HungTask is in flight
Hanging == \E r \in running : r.task_id = HungTask

C20_SetDeltas ==
    << <<"coding", << <<"formality", 5>>, <<"verbosity", -3>> >> >>,
       <<"polite", << <<"friendliness", 3>> >> >>,
       <<"humor", << <<"humor", 5>>, <<"formality", -5>> >> >>,
       <<"detailed", << <<"verbosity", 5>>, <<"helpfulness", 3>> >> >>,
       <<"brief", << <<"verbosity", -5>> >> >> >>

\* The deltas, in order, of the sets in `hit`
RECURSIVE C20_DeltasOf(_, _)
C20_DeltasOf(hit, i) ==
    IF i > Len(C20_SetDeltas) THEN <<>>
    ELSE (IF C20_SetDeltas[i][1] \in hit THEN C20_SetDeltas[i][2] ELSE <<>>)
         \o C20_DeltasOf(hit, i + 1)

\* Successive clamped application of a sequence of deltas
RECURSIVE C20_Applied(_, _)
C20_Applied(values, deltas) ==
    IF deltas = <<>> THEN values
    ELSE LET trait == deltas[1][1]
             moved == values[trait] + deltas[1][2]
             clamped == IF moved > 100 THEN 100 ELSE IF moved < 0 THEN 0 ELSE moved
         IN C20_Applied([values EXCEPT ![trait] = clamped], Tail(deltas))

\* What the claim says of the counters of one call
C20_Counters(user_id, content) ==
    /\ tracker'.interaction_count = tracker.interaction_count + 1
    /\ InteractionsOf(tracker', user_id) = InteractionsOf(tracker, user_id) + 1
    /\ \A other \in Users \ {user_id} :
           InteractionsOf(tracker', other) = InteractionsOf(tracker, other)
    /\ \A topic \in TopicNames :
           DictGet(tracker'.topics, topic) =
               DictGet(tracker.topics, topic)
                   + (IF topic \in MatchTable[content] THEN 1 ELSE 0)
    /\ DictKeys(tracker'.topics) = DictKeys(tracker.topics) \cup MatchTable[content]

\* C20 as stated - One record_interaction call increases interaction_count by
\* exactly 1 and the actor's count by exactly 1, increases the topic counter
\* of each keyword set the text matches by exactly 1 (however many keywords of
\* that set occur) and of no other set, and applies the trait deltas of every
\* matched set in the same call, so the traits after the call equal the
\* successive clamped application of all matched sets' deltas.
C20_TraitsAreMatchedDeltas ==
    [][\A user_id \in Users, content \in Texts :
         RecordInteraction(user_id, content, 0) =>
           /\ C20_Counters(user_id, content)
           /\ tracker'.personality_traits =
                  C20_Applied(tracker.personality_traits,
                              C20_DeltasOf(MatchTable[content], 1))
      ]_vars

\* C20 - One record_interaction call increases interaction_count by exactly 1
\* and the actor's count by exactly 1, increases the topic counter of each
\* keyword set the text matches by exactly 1 (however many keywords of that
\* set occur) and of no other set, and applies the trait deltas of every
\* matched set in the same call; the traits after the call equal the
\* successive clamped application of all matched sets' deltas, followed, when
\* interaction_count % 10 = 0 after the increment, by one natural evolution
\* pass over the result.
C20_MatchedDeltasThenEvolution ==
    [][\A user_id \in Users, content \in Texts :
         RecordInteraction(user_id, content, 0) =>
           LET applied == C20_Applied(tracker.personality_traits,
                                      C20_DeltasOf(MatchTable[content], 1))
           IN /\ C20_Counters(user_id, content)
              /\ MatchTable[TxtHumor] = {"humor"}
              /\ MatchTable[TxtPoliteCoding] = {"coding", "polite"}
              /\ MatchTable[TxtDetailBrief] = {"detailed", "brief"}
              /\ tracker'.interaction_count % 10 # 0 =>
                     tracker'.personality_traits = applied
              /\ tracker'.interaction_count % 10 = 0 =>
                     \A trait \in TraitNames :
                         tracker'.personality_traits[trait] = C7_PassOn(applied[trait])
      ]_vars

\* Ten calls whose text matched both the coding and the polite set: each call
\* counted both topics once and applied both sets' deltas, formality reached
\* the upper clamp, and the tenth call's evolution pass followed.
C20_Witness ==
    /\ tracker.interaction_count = 10
    /\ DictGet(tracker.topics, "coding") = 10
    /\ DictGet(tracker.topics, "polite") = 10
    /\ InteractionsOf(tracker, 1) = 4
    /\ InteractionsOf(tracker, 2) = 6
    /\ tracker.personality_traits =
           [friendliness |-> 79, formality |-> 99, humor |-> 50,
            verbosity |-> 21, helpfulness |-> 69]

\* C21 - When the create_reminder tool returns success for a time in the
\* future, a pending reminder task for the given user and channel exists in
\* the scheduler's task collection (and the reminder is later delivered to
\* that channel at that time): the call that returns success leaves such a
\* task in scheduled_tasks.
C21_SuccessSchedulesTask ==
    [][\A input_data \in ToolInputs :
          LET result == create_reminder(input_data, clock)
          IN (/\ tool_results' = Append(tool_results,
                                       [input |-> input_data, result |-> result])
              /\ result.success)
             => \E i \in 1..Len(scheduled_tasks') :
                    LET task == scheduled_tasks'[i][2]
                    IN /\ task.user_id = result.user_id
                       /\ task.channel_id = result.channel_id
                       /\ task.when = tool_fromisoformat(input_data.time)[1]
                       /\ \E job \in jobs' : job.id = task.id]_vars

\* The topic clauses get_system_prompt can append
C22_CodingClause == "You're particularly knowledgeable about programming."

C22_HumorClause == "You've noticed this community enjoys humor."

\* The topic clauses in the parts of the tracker's prompt
C22_Clauses ==
    SelectSeq(prompt_parts(tracker),
              LAMBDA part : part \in {C22_CodingClause, C22_HumorClause})

\* The highest topic count of the tracker, 0 without topics
C22_TopCount ==
    LET topics == tracker.topics
    IN IF Len(topics) = 0 THEN 0
       ELSE topics[CHOOSE i \in 1..Len(topics) :
                       \A j \in 1..Len(topics) : topics[j][2] <= topics[i][2]][2]

\* The topics that have the highest count, in the order the tracker met them
C22_TopTopics ==
    SelectSeq([i \in 1..Len(tracker.topics) |-> tracker.topics[i][1]],
              LAMBDA topic : DictGet(tracker.topics, topic) = C22_TopCount)

\* C22 as stated - get_system_prompt appends a topic clause for the single
\* most-frequent topic whenever that topic's count exceeds 10, whichever of
\* the five topics it is, and never appends more than one topic clause.
C22_ClauseForAnyTopTopic ==
    Len(prompt_log) > 0 =>
        /\ prompt_log[Len(prompt_log)] = join(prompt_parts(tracker))
        /\ Len(C22_Clauses) <= 1
        /\ C22_TopCount > 10 => Len(C22_Clauses) = 1

\* C22 as amended - get_system_prompt appends a topic clause only where the
\* first met of the most-frequent topics is 'coding' or 'humor' and its count
\* exceeds 10: then it appends the clause of that topic as the last part of
\* the prompt; in every other case, also where 'polite', 'detailed' or 'brief'
\* is counted most, it appends none. It never appends more than one.
C22_ClauseForCodingOrHumor ==
    Len(prompt_log) > 0 =>
        LET parts == prompt_parts(tracker)
            expected ==
                IF C22_TopCount > 10 /\ C22_TopTopics[1] = "coding"
                THEN <<C22_CodingClause>>
                ELSE IF C22_TopCount > 10 /\ C22_TopTopics[1] = "humor"
                THEN <<C22_HumorClause>>
                ELSE <<>>
        IN /\ prompt_log[Len(prompt_log)] = join(parts)
           /\ C22_Clauses = expected
           /\ expected # <<>> => parts[Len(parts)] = expected[1]

\* get_system_prompt was called on a tracker that counts 'coding' and
\* 'polite' eleven times each, 'coding' met first, and the prompt ends with
\* the programming clause.
C22_Witness ==
    /\ Len(prompt_log) > 0
    /\ C22_TopCount = 11
    /\ C22_TopTopics = <<"coding", "polite">>
    /\ C22_Clauses = <<C22_CodingClause>>

\* The text split_message was given, from its first chunk on
C23_AfterFirstChunk ==
    SubSeq(splitting.message, Len(splitting.chunks[1]) + 1, Len(splitting.message))

C23_IsWhitespace(text) == \A i \in 1..Len(text) : text[i] \in Whitespace

C28_TerminatesWithNonEmptyChunks ==
    /\ <>(splitting.pc = "done")
    /\ [](splitting.pc = "done" /\ splitting.message # <<>> =>
              \A i \in 1..Len(splitting.chunks) : splitting.chunks[i] # <<>>)

\* For every message parsed: the patterns of reminder_patterns, by their place
\* in the list, that match somewhere in the lower-cased message
C24_Matching ==
    [message \in ParseTexts |->
        {k \in 1..PatternCount :
            \E i \in 1..Len(message) : MatchEnd(k, lower(message), i) # 0}]

\* What the leftmost match of pattern k in the text makes of its groups
C24_ExpressionOf(k, text) ==
    LET i == CHOOSE i \in 1..Len(text) :
                 /\ MatchEnd(k, text, i) # 0
                 /\ \A j \in 1..(i - 1) : MatchEnd(k, text, j) = 0
        g == GroupStart(k, text, i)
    IN IF k \in {1, 2, 3}
       THEN [kind |-> "from now",
             amount |-> ToInt(SubSeq(text, g, DigitRunEnd(text, g))),
             unit |-> UnitWords[UnitAt(text, DigitRunEnd(text, g) + 2)]]
       ELSE [kind |-> "direct", text |-> SubSeq(text, g, MatchEnd(k, text, i))]

\* C24 - Time extraction tries the fixed patterns in their listed order and
\* uses the first one that matches the text; the general whole-text date
\* resolution is consulted only when no fixed pattern matches, and when
\* neither path yields a time the result is no result.
C24_FirstMatchingPattern ==
    parsing.pc = "done" =>
        LET matching == C24_Matching[parsing.message]
        IN /\ matching # {} =>
                  LET first == CHOOSE k \in matching : \A j \in matching : k <= j
                  IN parsing.asked = C24_ExpressionOf(first, lower(parsing.message))
           /\ matching = {} <=>
                  parsing.asked = [kind |-> "message", text |-> parsing.message]
           /\ parsing.parsed = NoTime => parsing.result = <<>>
           /\ parsing.result # <<>> =>
                  /\ parsing.parsed # NoTime
                  /\ parsing.result[1][1] = parsing.parsed[1]

\* "remind me at 3pm in 2 hours" was parsed: 'at 3pm' comes first in the text
\* and matches the fifth pattern, 'in 2 hours' matches the second, and
\* dateparser was asked for 2 hours from now and the call returned that time.
C24_Witness ==
    /\ parsing.pc = "done"
    /\ parsing.message = TxtThreePm
    /\ C24_Matching[TxtThreePm] = {2, 5}
    /\ parsing.asked = [kind |-> "from now", amount |-> 2, unit |-> <<"h", "o", "u", "r">>]
    /\ parsing.result # <<>>
    /\ parsing.result[1][1] = parsing.base + 7200

\* The seconds of the unit a request names
C25_Seconds(request) ==
    LET u == CHOOSE u \in 1..Len(UnitWords) : HasAt(request.unit, 1, UnitWords[u])
    IN UnitSeconds[u]

\* The time phrase of a request: "in <amount> <unit>"
C25_TimePhrase(request) ==
    <<"i", "n", " ">> \o request.amount \o <<" ">> \o request.unit

\* The lead-in phrase of a request
C25_LeadIn == <<"r", "e", "m", "i", "n", "d", " ", "m", "e">>

\* A task is plain: it holds no match of a time pattern and no lead-in
\* phrase, and its only whitespace is single spaces between its words
C25_Plain(task) ==
    /\ \A k \in 1..PatternCount, i \in 1..Len(task) : MatchEnd(k, lower(task), i) = 0
    /\ ~Contains(lower(task), C25_LeadIn)
    /\ collapse_spaces(strip(task)) = task

\* For every message parsed: the requests it is the text of
C25_RequestsOf ==
    [message \in ParseTexts |->
        {request \in RoundTripRequests : RoundTripText(request) = message}]

\* C25 as stated - Reminder round-trip: for a request of the form 'remind me
\* in N <unit> to <task>' with N >= 1, extraction yields a fire time equal to
\* now plus N units and a body that contains <task> and contains neither the
\* lead-in phrase nor the time phrase.
C25_RoundTripAnyTask ==
    parsing.pc = "done" =>
        \A request \in C25_RequestsOf[parsing.message] :
            /\ parsing.result # <<>>
            /\ parsing.result[1][1] =
                   parsing.base + ToInt(request.amount) * C25_Seconds(request)
            /\ LET body == parsing.result[1][2]
               IN /\ Contains(body, request.task)
                  /\ ~Contains(lower(body), C25_LeadIn)
                  /\ ~Contains(lower(body), C25_TimePhrase(request))

\* C25 as amended - for a request of the form 'remind me in N <unit> to
\* <task>' with N >= 1, extraction yields a fire time equal to now plus N
\* units; and where <task> itself holds no text that a fixed time pattern
\* matches, no lead-in phrase and no whitespace but single spaces between
\* words, the body is 'to <task>': it contains <task> and contains neither
\* the lead-in phrase nor the time phrase.
C25_RoundTripPlainTask ==
    parsing.pc = "done" =>
        \A request \in C25_RequestsOf[parsing.message] :
            /\ parsing.result # <<>>
            /\ parsing.result[1][1] =
                   parsing.base + ToInt(request.amount) * C25_Seconds(request)
            /\ C25_Plain(request.task) =>
                   LET body == parsing.result[1][2]
                   IN /\ body = <<"t", "o", " ">> \o request.task
                      /\ Contains(body, request.task)
                      /\ ~Contains(lower(body), C25_LeadIn)
                      /\ ~Contains(lower(body), C25_TimePhrase(request))

\* "remind me in 30 minutes to check the oven" was parsed with the clock at
\* `base`: the fire time is base plus 1800 seconds and the body is "to check
\* the oven".
C25_Witness ==
    /\ parsing.pc = "done"
    /\ parsing.message = TxtOven
    /\ C25_RequestsOf[TxtOven] # {}
    /\ C25_Plain(TaskOven)
    /\ parsing.result # <<>>
    /\ parsing.result[1][1] = parsing.base + 1800
    /\ parsing.result[1][2] = <<"t", "o", " ">> \o TaskOven

\* For every message parsed: the text left after the lead-in phrase and the
\* time expressions are cut out, stripped and with its whitespace collapsed
C26_Residual ==
    [message \in ParseTexts |->
        collapse_spaces(strip(sub_patterns_from(1, after_lead_in(message))))]

\* C26 - The reminder body is never degenerate: when the text left after
\* stripping the lead-in phrase and the time expressions has fewer than 3
\* characters, the body is the entire original message; otherwise it is the
\* stripped, whitespace-collapsed residual.
C26_BodyNotDegenerate ==
    parsing.pc = "done" /\ parsing.result # <<>> =>
        LET body == parsing.result[1][2]
            residual == C26_Residual[parsing.message]
        IN /\ Len(residual) < 3 => body = parsing.message
           /\ Len(residual) >= 3 =>
                  /\ body = residual
                  /\ body[1] \notin Whitespace /\ body[Len(body)] \notin Whitespace
                  /\ \A i \in 1..(Len(body) - 1) :
                         body[i] \in Whitespace => body[i] = " " /\ body[i + 1] # " "

\* "remind me tomorrow ok" was parsed and a time was found: the two
\* characters "ok" are all that is left of it, and the body is the whole
\* message.
C26_Witness ==
    /\ parsing.pc = "done"
    /\ parsing.message = TxtTomorrowOk
    /\ C26_Residual[TxtTomorrowOk] = <<"o", "k">>
    /\ parsing.result # <<>>
    /\ parsing.result[1][2] = TxtTomorrowOk

\* The calls of a user that returned True
C27_Granted(user_id) ==
    {i \in 1..Len(checks) : checks[i].user_id = user_id /\ checks[i].ok}

\* C27 - Per-user rate limiting: for every user and every sequence of
\* check_rate_limit calls at non-decreasing times, at most
\* RATE_LIMIT_MESSAGES calls return True within any window of
\* RATE_LIMIT_SECONDS.
C27_WindowHolds ==
    \A user_id \in Users : \A first \in C27_Granted(user_id) :
        Cardinality({i \in C27_Granted(user_id) :
                        /\ checks[first].now <= checks[i].now
                        /\ checks[i].now <= checks[first].now + RATE_LIMIT_SECONDS})
            <= RATE_LIMIT_MESSAGES

\* C27, second half - a call that returns False records no timestamp, and
\* calls for one user never change another user's timestamps.
C27_CallTouchesOwnDequeOnly ==
    [][Len(checks') = Len(checks) + 1 =>
          LET call == checks'[Len(checks')]
              before == DefaultGet(rate_limits, call.user_id)
              after == rate_limits'[call.user_id]
          IN /\ \A other \in Users \ {call.user_id} :
                    /\ other \in DOMAIN rate_limits' <=> other \in DOMAIN rate_limits
                    /\ other \in DOMAIN rate_limits =>
                           rate_limits'[other] = rate_limits[other]
             /\ ~call.ok =>
                    /\ \A i \in 1..Len(after) : \E j \in 1..Len(before) : after[i] = before[j]
                    /\ Len(after) <= Len(before)
                    /\ \A i \in 1..Len(after) : after[i] # call.now \/ call.now = before[Len(before)]
             /\ call.ok => Len(after) > 0 /\ after[Len(after)] = call.now
      ]_vars

C29_RestoredSharesNothing ==
    restored.pc = "saved" =>
        /\ deref(restored.data, restored.objects) = restored.saved
        /\ \A which \in 1..Len(restored.trackers) :
               restored.calls[which] = 0 =>
                   restored.objects[restored.trackers[which].personality_traits]
                       = dict_get(restored.saved, "personality_traits",
                                  DefaultTraits)

\* C29, second half - from_dict(to_dict(t)) has the same traits, topic counts,
\* actor counts and interaction_count as t.
C29_RoundTrip ==
    /\ restored.pc = "saved"
    /\ restored.saved = to_dict(tracker)
    /\ \A which \in 1..Len(restored.trackers) : restored.calls[which] = 0
    =>
        \A which \in 1..Len(restored.trackers) :
                LET back == deref(restored.trackers[which], restored.objects)
                IN /\ back.personality_traits = tracker.personality_traits
                   /\ back.topics = tracker.topics
                   /\ back.user_interactions = tracker.user_interactions
                   /\ back.interaction_count = tracker.interaction_count

\* C29 - Snapshot independence: a tracker restored with from_dict shares no
\* mutable state with the snapshot it was built from, and from_dict(to_dict(t))
\* has the same traits, topic counts, actor counts and interaction_count as t.
C29_SnapshotIndependence == C29_RestoredSharesNothing /\ C29_RoundTrip

\* The sum of the counts of the given actors
RECURSIVE C30_SumOver(_, _)
C30_SumOver(counts, actors) ==
    IF actors = {} THEN 0
    ELSE LET actor == CHOOSE a \in actors : TRUE
         IN counts[actor] + C30_SumOver(counts, actors \ {actor})

\* C30 - Counter consistency: in every state reachable from a fresh or reset
\* tracker by record_interaction calls, interaction_count equals the sum of
\* all actor counts, every topic counter is at most interaction_count, and the
\* unique-user figure reported by get_personality_summary equals the number of
\* distinct actors recorded.
C30_CountersConsistent ==
    /\ tracker.interaction_count =
           C30_SumOver(tracker.user_interactions, DOMAIN tracker.user_interactions)
    /\ \A i \in 1..Len(tracker.topics) :
           tracker.topics[i][2] <= tracker.interaction_count
    /\ counted.summary # <<>> =>
           /\ counted.summary[1].unique_users = Cardinality(counted.actors)
           /\ counted.summary[1].interactions = tracker.interaction_count

\* A tracker reset at second 1 has since met both users in three calls, two of
\* them on coding, and a summary has been asked for.
C30_Witness ==
    /\ tracker.start_time = 1
    /\ tracker.interaction_count = 3
    /\ tracker.user_interactions = [u \in Users |-> IF u = 1 THEN 2 ELSE 1]
    /\ DictGet(tracker.topics, "coding") = 2
    /\ counted.actors = Users
    /\ counted.summary # <<>>
    /\ counted.summary[1].unique_users = 2

====
